---- MODULE Spec2Model ----
(***************************************************************************)
(* A model of rust-tugraph: the ownership wrappers around the foreign      *)
(* handles of the TuGraph engine (galaxy, graph, transaction, cursor),     *)
(* their finalizers, the translation of foreign errors, and the cursor     *)
(* protocol.  The engine itself (libtugraph-sys/tugraph-db) is a           *)
(* collaborator whose behaviour is taken from the specification document.  *)
(***************************************************************************)
EXTENDS Integers, Sequences, FiniteSets, TLC

\* ------------------------------------------------------------------ bounds
NThreads == 2      \* threads of the client program (thread 1 owns galaxy and graph)
MaxTxn == 2        \* transaction handles the engine hands out in one run
MaxCur == 2        \* cursor handles the engine hands out in one run
MaxVid == 2        \* vertex ids are 0..MaxVid
MaxEid == 2        \* edge keys (EdgeUid in key order) are 0..MaxEid

Threads == 1..NThreads
TxnIds == 1..MaxTxn
CurIds == 1..MaxCur
Vids == 0..MaxVid
Eids == 0..MaxEid

VARIABLES
    faulty,     \* whether the engine may report failures the nominal engine does not (I/O)
    build,      \* "debug" | "release": whether debug_assert! is compiled in
    galaxy,     \* the RawGalaxy wrapper and the foreign calls issued on its handle
    graph,      \* the RawGraphDB wrapper and the foreign calls issued on its handle
    txn,        \* transaction handle -> wrapper and engine state
    cur,        \* cursor handle -> wrapper state
    pc,         \* thread -> "idle" | "blocked" | "panicked"
    halted,     \* the process was aborted by a panic raised while unwinding
    version,    \* number of write transactions the engine has committed
    store,      \* the committed writes, each named by the transaction that made it
    verts,      \* the vertex ids in the view of the transaction the cursors read
    edges,      \* the keys of the edges the edge cursor ranges over
    vpos,       \* position of the vertex cursor
    epos,       \* position of the edge cursor
    last        \* the public operation performed by the last step and what it returned

cvars == <<verts, edges, vpos, epos>>
vars == <<faulty, build, galaxy, graph, txn, cur, pc, halted, version, store, cvars, last>>

\* ------------------------------------------------------- error translation
NullMsg == ""
ConflictMsg == "Transaction conflicts with an earlier one."
IOErrorMsg == "IO Error."
NestedTxnMsg == "The thread already has an active transaction."

\* A classification that knows no exception text.
KindUnknown(message) == "Other"

\* Error::kind: exact string match against the table of exception texts.
Kind(message) ==
    CASE message = "Invalid parameter." -> "InvalidParameter"
      [] message = "Invalid Galaxy." -> "InvalidGalaxy"
      [] message = "Invalid GraphDB." -> "InvalidGraphDB"
      [] message = "Invalid transaction." -> "InvalidTxn"
      [] message = "Invalid iterator." -> "InvalidIterator"
      [] message = "Write transactions cannot be forked." -> "InvalidFork"
      [] message = "Transaction conflicts with an earlier one." -> "TxnConflict"
      [] message = "Access denied." -> "WriteNotAllowed"
      [] message = "The specified TuGraph DB does not exist." -> "DBNotExist"
      [] message = "IO Error." -> "IOError"
      [] message = "Unauthorized." -> "Unauthorized"
      [] OTHER -> "Other"

\* A Result<T, Error>: Ok(val) or Err(Error { message: msg }).
Ok(value) == [ok |-> TRUE, msg |-> NullMsg, val |-> value]
Err(message) == [ok |-> FALSE, msg |-> message, val |-> 0]

\* A translation that never looks at the error slot.
FfiTryIgnoresErr(err, result) == Ok(result)

\* A translation that reads the error slot the wrong way round.
FfiTryInverted(err, result) == IF err = NullMsg THEN Err(err) ELSE Ok(result)

\* ffi_try!: the error slot after the call decides; a non-null slot makes the
\* primary return value unusable.
FfiTry(err, result) == IF err # NullMsg THEN Err(err) ELSE Ok(result)

\* The failures a foreign call may report besides those of the nominal engine.
Faults == IF faulty THEN {NullMsg, IOErrorMsg} ELSE {NullMsg}

\* ------------------------------------------------------ wrappers and handles
\* A wrapper is "none" (handle not yet obtained), "pending" (the foreign
\* factory call has not returned), "live" (the value is in scope) or "gone"
\* (dropped, or consumed by commit).  calls lists the finalizing foreign calls
\* issued on the handle, in order.
NoTxn == [st |-> "none", owner |-> 0, kind |-> "ro", opt |-> FALSE, eopt |-> FALSE,
          eng |-> "none", wrote |-> FALSE, sver |-> 0, snap |-> {}, res |-> "none",
          calls |-> <<>>]
NoCur == [st |-> "none", txn |-> 0, calls |-> <<>>]

\* A cursor position: Invalid, or Valid at a key.
Invalid == [valid |-> FALSE, key |-> 0]
At(k) == [valid |-> TRUE, key |-> k]

\* What a step records: the operation, its thread and handle, what it returned
\* (ok/msg, val "some"/"none" and item for cursors), whether it panicked, its
\* arguments (arg, near), the cursor position before it (pre), and the failure
\* a foreign call reported while it ran (fail).
NoOp == [op |-> "init", t |-> 0, h |-> 0, ok |-> TRUE, msg |-> NullMsg, panic |-> FALSE,
         val |-> "", item |-> 0, arg |-> 0, near |-> FALSE, pre |-> Invalid,
         fail |-> NullMsg]

Op(name, t, h, res) ==
    [NoOp EXCEPT !.op = name, !.t = t, !.h = h, !.ok = res.ok, !.msg = res.msg,
                 !.fail = res.msg]
Panic(name, t, h) ==
    [NoOp EXCEPT !.op = name, !.t = t, !.h = h, !.ok = FALSE, !.panic = TRUE]

FreeTxns == {h \in TxnIds : txn[h].st = "none"}
FreeCurs == {c \in CurIds : cur[c].st = "none"}
NewTxn == CHOOSE h \in FreeTxns : \A g \in FreeTxns : h <= g
NewCur == CHOOSE c \in FreeCurs : \A d \in FreeCurs : c <= d

Count(calls, name) == Cardinality({i \in DOMAIN calls : calls[i] = name})

\* -------------------------------------------------- the engine, as specified
\* The engine keeps one active transaction per thread.
EngThreadActive(t) == \E h \in TxnIds : txn[h].owner = t /\ txn[h].eng = "active"

\* The pessimistic write lock is held by an active non-optimistic write transaction.
EngWriteLocked == \E h \in TxnIds :
    txn[h].eng = "active" /\ txn[h].kind = "rw" /\ ~txn[h].eopt

\* lgraph_api_graph_db_create_read_txn / create_write_txn: a thread that already
\* has an active transaction is refused.
EngCreateTxnErr(t) == IF EngThreadActive(t) THEN NestedTxnMsg ELSE NullMsg

\* lgraph_api_transaction_commit: an optimistic transaction that wrote conflicts
\* when a write transaction committed after it began.
EngCommitErr(h) ==
    IF txn[h].eopt /\ txn[h].wrote /\ txn[h].sver # version THEN ConflictMsg ELSE NullMsg

\* What the finalizing calls on transaction h leave committed: the writes of h
\* join the store when a commit is issued before any abort and reports no
\* error (e is the error slot of that commit); an abort discards them.
EngStoreAfter(h, calls, e) ==
    IF /\ txn[h].wrote
       /\ \E i \in DOMAIN calls :
             /\ calls[i] = "commit" /\ e = NullMsg
             /\ \A j \in 1..(i - 1) : calls[j] # "abort"
    THEN store \cup {h}
    ELSE store

\* --------------------------------------------------------------- finalizers
\* A finalizer that commits what the transaction wrote.
DropCommits(f) == <<"commit", "destroy">>

\* impl Drop for RawTransaction: abort, expect, destroy.  f is the error slot
\* of the abort call; a failure panics before destroy.
RawTxnDropCalls(f) == IF f # NullMsg THEN <<"abort">> ELSE <<"abort", "destroy">>

\* A commit that is issued again before the transaction is finalized.
CommitRetried(f) == <<"commit", "commit">> \o RawTxnDropCalls(f)

\* RawTransaction::commit(self): the foreign commit, then self goes out of
\* scope at the end of the function and its finalizer runs.
RawTxnCommitCalls(f) == <<"commit">> \o RawTxnDropCalls(f)

\* impl Drop for RawGraphDB / RawGalaxy: close, expect, destroy.
RawCloseDropCalls(f) == IF f # NullMsg THEN <<"close">> ELSE <<"close", "destroy">>

\* impl Drop for the raw cursors: close and destroy, neither of them fallible.
RawCursorDropCalls == <<"close", "destroy">>

\* A panic unwinds the thread; a panic raised while unwinding aborts the process.
AfterPanic(t) == pc' = [pc EXCEPT ![t] = "panicked"] /\ halted' = (pc[t] = "panicked")
NoPanic == UNCHANGED <<pc, halted>>

\* Graph::create_rw_txn hands the caller's flag to RawGraphDB::create_write_txn,
\* which hands it to lgraph_api_graph_db_create_write_txn.
\* Mutations of the flag, used to test the properties of the write lock.
AlwaysOptimistic(optimistic) == TRUE
Negated(optimistic) == ~optimistic
RawCreateWriteTxnFlag(optimistic) == optimistic
GraphCreateRwTxnFlag(optimistic) == RawCreateWriteTxnFlag(optimistic)

\* The mode the caller of create_rw_txn asked for, as recorded in last.val.
Mode(optimistic) == IF optimistic THEN "optimistic" ELSE "pessimistic"

Init ==
    /\ faulty = FALSE
    /\ build = "release"     \* no operation on handles depends on the build
    /\ galaxy = [st |-> "live", calls |-> <<>>]
    /\ graph = [st |-> "live", calls |-> <<>>]
    /\ txn = [h \in TxnIds |-> NoTxn]
    /\ cur = [c \in CurIds |-> NoCur]
    /\ pc = [t \in Threads |-> "idle"]
    /\ halted = FALSE
    /\ version = 0
    /\ store = {}
    /\ verts = {} /\ edges = {} /\ vpos = Invalid /\ epos = Invalid
    /\ last = NoOp

\* A thread can call into the library while it is neither blocked nor unwinding.
Running(t) == ~halted /\ pc[t] = "idle"
\* Finalizers also run while the thread unwinds.
Unwinding(t) == ~halted /\ pc[t] \in {"idle", "panicked"}
\* The graph can be borrowed while its wrapper and the galaxy's are in scope.
GraphUsable == graph.st = "live" /\ galaxy.st = "live"
\* A transaction can be used while its wrapper is in scope and the graph it
\* borrows has not been moved or dropped.
TxnUsable(t, h) == txn[h].st = "live" /\ txn[h].owner = t /\ graph.st = "live"

\* Graph::create_ro_txn
CreateRoTxn(t) ==
    /\ Running(t) /\ GraphUsable /\ FreeTxns # {}
    /\ \E f \in Faults :
        LET e == IF f # NullMsg THEN f ELSE EngCreateTxnErr(t)
            r == FfiTry(e, NewTxn)
        IN /\ txn' = IF r.ok
                     THEN [txn EXCEPT ![NewTxn] = [NoTxn EXCEPT !.st = "live", !.owner = t,
                               !.kind = "ro", !.eng = "active", !.sver = version, !.snap = store]]
                     ELSE txn
           /\ last' = Op("create_ro_txn", t, IF r.ok THEN r.val ELSE 0, r)
    /\ UNCHANGED <<faulty, build, cvars, galaxy, graph, cur, pc, halted, version, store>>

\* Graph::create_rw_txn(optimistic).  A pessimistic request made while the
\* write lock is held does not return: the thread blocks inside the foreign call.
CreateRwTxn(t, optimistic) ==
    /\ Running(t) /\ GraphUsable /\ FreeTxns # {}
    /\ \E f \in Faults :
        LET eopt == GraphCreateRwTxnFlag(optimistic)
            e == IF f # NullMsg THEN f ELSE EngCreateTxnErr(t)
            r == FfiTry(e, NewTxn)
            rec == [NoTxn EXCEPT !.owner = t, !.kind = "rw", !.opt = optimistic,
                                 !.eopt = eopt]
        IN IF e = NullMsg /\ ~eopt /\ EngWriteLocked
           THEN /\ txn' = [txn EXCEPT ![NewTxn] = [rec EXCEPT !.st = "pending"]]
                /\ pc' = [pc EXCEPT ![t] = "blocked"]
                /\ last' = [NoOp EXCEPT !.op = "create_rw_txn_call", !.t = t, !.h = NewTxn,
                                        !.val = Mode(optimistic)]
           ELSE /\ txn' = IF r.ok
                          THEN [txn EXCEPT ![NewTxn] = [rec EXCEPT !.st = "live",
                                    !.eng = "active", !.sver = version, !.snap = store]]
                          ELSE txn
                /\ pc' = pc
                /\ last' = [Op("create_rw_txn", t, IF r.ok THEN r.val ELSE 0, r)
                               EXCEPT !.val = Mode(optimistic)]
    /\ UNCHANGED <<faulty, build, cvars, galaxy, graph, cur, halted, version, store>>

\* The blocked create_rw_txn(false) returns once the write lock is free.
AcquireRwTxn(t) ==
    /\ ~halted /\ pc[t] = "blocked" /\ ~EngWriteLocked
    /\ \E h \in TxnIds :
        /\ txn[h].st = "pending" /\ txn[h].owner = t
        /\ LET r == FfiTry(NullMsg, h)
           IN /\ txn' = [txn EXCEPT ![h] = [@ EXCEPT !.st = IF r.ok THEN "live" ELSE "gone",
                                                    !.eng = "active", !.sver = version, !.snap = store]]
              /\ last' = [Op("create_rw_txn", t, IF r.ok THEN r.val ELSE 0, r)
                             EXCEPT !.val = Mode(txn[h].opt)]
    /\ pc' = [pc EXCEPT ![t] = "idle"]
    /\ UNCHANGED <<faulty, build, cvars, galaxy, graph, cur, halted, version, store>>

\* TxnWrite::add_vertex on a read-write transaction.
AddVertex(t, h) ==
    /\ Running(t) /\ TxnUsable(t, h) /\ txn[h].kind = "rw"
    /\ \E f \in Faults :
        LET r == FfiTry(f, 0)
        IN /\ txn' = IF r.ok THEN [txn EXCEPT ![h].wrote = TRUE] ELSE txn
           /\ last' = Op("add_vertex", t, h, r)
    /\ UNCHANGED <<faulty, build, cvars, galaxy, graph, cur, pc, halted, version, store>>

\* RwTxn::commit(self) -> RawTransaction::commit(self): one foreign commit,
\* whose result is returned, and then the finalizer of the moved-in value.
\* Cursors created from the transaction may still be in scope: neither
\* VertexCur nor VertexCurMut has a finalizer of its own that mentions 'txn.
Commit(t, h) ==
    /\ Running(t) /\ TxnUsable(t, h) /\ txn[h].kind = "rw"
    /\ \E f \in Faults, fa \in Faults :
        LET e == IF f # NullMsg THEN f ELSE EngCommitErr(h)
            r == FfiTry(e, 0)
            bump == e = NullMsg /\ txn[h].wrote
        IN /\ txn' = [txn EXCEPT ![h] = [@ EXCEPT !.st = "gone",
                          !.eng = IF f # NullMsg /\ fa # NullMsg THEN "active" ELSE "done",
                          !.res = IF r.ok THEN "ok" ELSE r.msg,
                          !.calls = RawTxnCommitCalls(fa)]]
           /\ version' = IF bump THEN version + 1 ELSE version
           /\ store' = EngStoreAfter(h, RawTxnCommitCalls(fa), e)
           /\ IF fa # NullMsg
              THEN AfterPanic(t) /\ last' = Panic("commit", t, h)
              ELSE NoPanic /\ last' = Op("commit", t, h, r)
    /\ UNCHANGED <<faulty, build, cvars, galaxy, graph, cur>>

\* A transaction going out of scope, or dropped explicitly.
DropTxn(t, h) ==
    /\ Unwinding(t) /\ txn[h].st = "live" /\ txn[h].owner = t
    /\ \E fa \in Faults :
        /\ txn' = [txn EXCEPT ![h] = [@ EXCEPT !.st = "gone",
                       !.eng = IF fa # NullMsg THEN "active" ELSE "done",
                       !.calls = RawTxnDropCalls(fa)]]
        /\ store' = EngStoreAfter(h, RawTxnDropCalls(fa), fa)
        /\ IF fa # NullMsg
           THEN AfterPanic(t) /\ last' = Panic("drop_txn", t, h)
           ELSE NoPanic /\ last' = Op("drop_txn", t, h, Ok(0))
    /\ UNCHANGED <<faulty, build, cvars, galaxy, graph, cur, version>>

\* TxnRead::vertex_cur / TxnWrite::vertex_cur_mut
CreateCursor(t, h) ==
    /\ Running(t) /\ TxnUsable(t, h) /\ FreeCurs # {}
    /\ \E f \in Faults :
        LET r == FfiTry(f, NewCur)
        IN /\ cur' = IF r.ok
                     THEN [cur EXCEPT ![NewCur] = [NoCur EXCEPT !.st = "live", !.txn = h]]
                     ELSE cur
           /\ last' = Op("vertex_cur", t, IF r.ok THEN r.val ELSE 0, r)
    /\ UNCHANGED <<faulty, build, cvars, galaxy, graph, txn, pc, halted, version, store>>

\* A cursor going out of scope, or dropped explicitly.
DropCursor(t, c) ==
    /\ Unwinding(t) /\ cur[c].st = "live" /\ txn[cur[c].txn].owner = t
    /\ cur' = [cur EXCEPT ![c] = [@ EXCEPT !.st = "gone", !.calls = RawCursorDropCalls]]
    /\ last' = Op("drop_cursor", t, c, Ok(0))
    /\ UNCHANGED <<faulty, build, cvars, galaxy, graph, txn, pc, halted, version, store>>

\* The Graph going out of scope on the thread that opened it.
DropGraph ==
    /\ Unwinding(1) /\ graph.st = "live"
    /\ \E f \in Faults :
        /\ graph' = [st |-> "gone", calls |-> RawCloseDropCalls(f)]
        /\ IF f # NullMsg
           THEN AfterPanic(1) /\ last' = Panic("drop_graph", 1, 0)
           ELSE NoPanic /\ last' = Op("drop_graph", 1, 0, Ok(0))
    /\ UNCHANGED <<faulty, build, cvars, galaxy, txn, cur, version, store>>

\* The Galaxy going out of scope on the thread that opened it.
DropGalaxy ==
    /\ Unwinding(1) /\ galaxy.st = "live"
    /\ \E f \in Faults :
        /\ galaxy' = [st |-> "gone", calls |-> RawCloseDropCalls(f)]
        /\ IF f # NullMsg
           THEN AfterPanic(1) /\ last' = Panic("drop_galaxy", 1, 0)
           ELSE NoPanic /\ last' = Op("drop_galaxy", 1, 0, Ok(0))
    /\ UNCHANGED <<faulty, build, cvars, graph, txn, cur, version, store>>

\* VertexCursor::is_valid on a cursor whose borrow of the transaction is alive.
CursorIsValid(t, c) ==
    /\ Running(t) /\ cur[c].st = "live" /\ TxnUsable(t, cur[c].txn)
    /\ last' = Op("cursor_is_valid", t, c, Ok(0))
    /\ UNCHANGED <<faulty, build, cvars, galaxy, graph, txn, cur, pc, halted, version, store>>

\* ------------------------------------------------------ the cursor protocol
Min(S) == CHOOSE x \in S : \A y \in S : x <= y

\* Where the engine leaves a cursor over the keys S: on goto(key, nearest) and
\* on next from position p.  Advancing an Invalid cursor leaves it Invalid.
EngGoto(S, key, nearest) ==
    IF key \in S THEN At(key)
    ELSE IF nearest /\ {k \in S : k >= key} # {} THEN At(Min({k \in S : k >= key}))
    ELSE Invalid
EngNext(S, p) ==
    IF p.valid /\ {k \in S : k > p.key} # {} THEN At(Min({k \in S : k > p.key}))
    ELSE Invalid
\* A cursor created from a transaction or a vertex starts on the first element.
EngFirst(S) == IF S = {} THEN Invalid ELSE At(Min(S))
\* Accessors of an Invalid cursor fail in the engine.
InvalidIteratorMsg == "Invalid iterator."
EngAccessErr(p) == IF p.valid THEN NullMsg ELSE InvalidIteratorMsg

\* debug_assert!(cond): compiled in only with debug assertions.
DebugAssertPanics(cond) == build = "debug" /\ ~cond

\* A seek_to_next that ignores what the engine returned.
AlwaysSome(ret) == "some"

\* VertexCursor::seek_to_next / EdgeCursor::seek_to_next:
\*   if self.as_raw().next()? { Ok(Some(self)) } else { Ok(None) }
SeekToNextVal(ret) == IF ret THEN "some" ELSE "none"

CursorStep(rec) ==
    /\ last' = rec
    /\ IF rec.panic THEN pc' = [pc EXCEPT ![1] = "panicked"] ELSE pc' = pc

\* A goto that drops its nearest argument.
GotoExact(S, vid, nearest) == EngGoto(S, vid, FALSE)

\* RawVertexCursor::goto(vid, nearest):
\*   ffi_try! { lgraph_api_vertex_iterator_goto(self.inner, vid, nearest) }
RawVertexGoto(S, vid, nearest) == EngGoto(S, vid, nearest)

\* VertexCursor::seek(vid, nearest):
\*   let ret = self.as_raw().goto(vid, nearest)?; debug_assert!(ret); Ok(self)
VertexSeek(vid, nearest) ==
    /\ Running(1)
    /\ \E f \in Faults :
        LET p == IF f # NullMsg THEN vpos ELSE RawVertexGoto(verts, vid, nearest)
            r == FfiTry(f, p.valid)
            rec == [NoOp EXCEPT !.op = "vertex_seek", !.t = 1, !.arg = vid, !.near = nearest,
                                !.pre = vpos, !.fail = f, !.msg = r.msg,
                                !.ok = r.ok /\ ~DebugAssertPanics(p.valid),
                                !.panic = r.ok /\ DebugAssertPanics(p.valid)]
        IN /\ vpos' = p
           /\ CursorStep(rec)
    /\ UNCHANGED <<faulty, build, galaxy, graph, txn, cur, halted, version, store, verts, edges, epos>>

\* EdgeCursor::seek(euid, nearest):
\*   debug_assert!(self.as_raw().goto(&euid.as_raw(), nearest)?); Ok(self)
\* Without debug assertions the argument of debug_assert! is not evaluated.
EdgeSeek(euid, nearest) ==
    /\ Running(1)
    /\ \E f \in Faults :
        LET called == build = "debug"
            fc == IF called THEN f ELSE NullMsg
            p == IF called /\ fc = NullMsg THEN EngGoto(edges, euid, nearest) ELSE epos
            r == FfiTry(fc, p.valid)
            rec == [NoOp EXCEPT !.op = "edge_seek", !.t = 1, !.arg = euid, !.near = nearest,
                                !.pre = epos, !.fail = fc, !.msg = r.msg,
                                !.ok = r.ok /\ ~(called /\ DebugAssertPanics(p.valid)),
                                !.panic = called /\ r.ok /\ DebugAssertPanics(p.valid)]
        IN /\ epos' = p
           /\ CursorStep(rec)
    /\ UNCHANGED <<faulty, build, galaxy, graph, txn, cur, halted, version, store, verts, edges, vpos>>

\* VertexCursor::seek_to_next
VertexSeekToNext ==
    /\ Running(1)
    /\ \E f \in Faults :
        LET p == IF f # NullMsg THEN vpos ELSE EngNext(verts, vpos)
            r == FfiTry(f, p.valid)
            rec == [NoOp EXCEPT !.op = "vertex_seek_to_next", !.t = 1, !.pre = vpos,
                                !.fail = f, !.ok = r.ok, !.msg = r.msg,
                                !.val = IF r.ok THEN SeekToNextVal(r.val) ELSE ""]
        IN /\ vpos' = p
           /\ CursorStep(rec)
    /\ UNCHANGED <<faulty, build, galaxy, graph, txn, cur, halted, version, store, verts, edges, epos>>

\* EdgeCursor::seek_to_next
EdgeSeekToNext ==
    /\ Running(1)
    /\ \E f \in Faults :
        LET p == IF f # NullMsg THEN epos ELSE EngNext(edges, epos)
            r == FfiTry(f, p.valid)
            rec == [NoOp EXCEPT !.op = "edge_seek_to_next", !.t = 1, !.pre = epos,
                                !.fail = f, !.ok = r.ok, !.msg = r.msg,
                                !.val = IF r.ok THEN SeekToNextVal(r.val) ELSE ""]
        IN /\ epos' = p
           /\ CursorStep(rec)
    /\ UNCHANGED <<faulty, build, galaxy, graph, txn, cur, halted, version, store, verts, edges, vpos>>

\* IntoVertexIds::next:
\*   if !self.cursor.is_valid() { return None; }
\*   let id = self.cursor.id().expect(..); let _ = self.cursor.seek_to_next(); Some(id)
\* fi is the error slot of get_id, fn that of next.
IntoVertexIdsNext ==
    /\ Running(1)
    /\ \E fi \in Faults, fn \in Faults :
        LET idr == FfiTry(IF fi # NullMsg THEN fi ELSE EngAccessErr(vpos), vpos.key)
            adv == vpos.valid /\ idr.ok
            p == IF adv /\ fn = NullMsg THEN EngNext(verts, vpos) ELSE vpos
            rec == [NoOp EXCEPT !.op = "into_vertex_ids_next", !.t = 1, !.pre = vpos,
                        !.fail = IF ~vpos.valid THEN NullMsg
                                 ELSE IF ~idr.ok THEN idr.msg ELSE fn,
                        !.panic = vpos.valid /\ ~idr.ok,
                        !.ok = ~vpos.valid \/ idr.ok,
                        !.val = IF adv THEN "some" ELSE "none",
                        !.item = IF adv THEN idr.val ELSE 0]
        IN /\ vpos' = p
           /\ CursorStep(rec)
    /\ UNCHANGED <<faulty, build, galaxy, graph, txn, cur, halted, version, store, verts, edges, epos>>

CursorNext ==
    \/ \E v \in Vids, n \in BOOLEAN : VertexSeek(v, n)
    \/ \E e \in Eids, n \in BOOLEAN : EdgeSeek(e, n)
    \/ VertexSeekToNext
    \/ EdgeSeekToNext
    \/ IntoVertexIdsNext

\* Fresh cursors of one open transaction over any graph within the bounds,
\* in either build.
CursorInitWith(fl) ==
    /\ faulty = fl
    /\ build \in {"debug", "release"}
    /\ galaxy = [st |-> "live", calls |-> <<>>]
    /\ graph = [st |-> "live", calls |-> <<>>]
    /\ txn = [h \in TxnIds |-> NoTxn]
    /\ cur = [c \in CurIds |-> NoCur]
    /\ pc = [t \in Threads |-> "idle"]
    /\ halted = FALSE
    /\ version = 0
    /\ store = {}
    /\ verts \in SUBSET Vids
    /\ edges \in SUBSET Eids
    /\ vpos = EngFirst(verts)
    /\ epos = EngFirst(edges)
    /\ last = NoOp

CursorInit == CursorInitWith(FALSE)
CursorInitFault == CursorInitWith(TRUE)
CursorSpec == CursorInit /\ [][CursorNext]_vars
CursorSpecFault == CursorInitFault /\ [][CursorNext]_vars

\* Handles and their finalizers, on the thread that opened the galaxy.
Next ==
    \/ CreateRoTxn(1)
    \/ \E o \in BOOLEAN : CreateRwTxn(1, o)
    \/ \E h \in TxnIds : AddVertex(1, h)
    \/ \E h \in TxnIds : Commit(1, h)
    \/ \E h \in TxnIds : DropTxn(1, h)
    \/ \E h \in TxnIds : CreateCursor(1, h)
    \/ \E c \in CurIds : CursorIsValid(1, c)
    \/ \E c \in CurIds : DropCursor(1, c)
    \/ DropGraph
    \/ DropGalaxy

Spec == Init /\ [][Next]_vars

\* The same program against an engine whose calls may also fail.
InitFault ==
    /\ faulty = TRUE
    /\ build = "release"
    /\ galaxy = [st |-> "live", calls |-> <<>>]
    /\ graph = [st |-> "live", calls |-> <<>>]
    /\ txn = [h \in TxnIds |-> NoTxn]
    /\ cur = [c \in CurIds |-> NoCur]
    /\ pc = [t \in Threads |-> "idle"]
    /\ halted = FALSE
    /\ version = 0
    /\ store = {}
    /\ verts = {} /\ edges = {} /\ vpos = Invalid /\ epos = Invalid
    /\ last = NoOp

SpecFault == InitFault /\ [][Next]_vars

\* Transactions of several threads on one graph (thread::scope over &graph).
ConcNext ==
    \/ \E t \in Threads : CreateRoTxn(t)
    \/ \E t \in Threads, o \in BOOLEAN : CreateRwTxn(t, o)
    \/ \E t \in Threads : AcquireRwTxn(t)
    \/ \E t \in Threads, h \in TxnIds : AddVertex(t, h)
    \/ \E t \in Threads, h \in TxnIds : Commit(t, h)
    \/ \E t \in Threads, h \in TxnIds : DropTxn(t, h)

ConcSpec == Init /\ [][ConcNext]_vars

\* The same threads, each of which ends every transaction it opened (a
\* transaction is a local value: its scope ends), against a write lock that is
\* handed to every waiter in turn.
LiveSpec ==
    /\ Init
    /\ [][ConcNext]_vars
    /\ \A t \in Threads : SF_vars(AcquireRwTxn(t))
    /\ \A t \in Threads, h \in TxnIds : WF_vars(DropTxn(t, h))

\* ------------------------------------------------------------------ claims
\* C1: a cursor handle is always closed and destroyed before the transaction
\* it was created from is committed, aborted or destroyed: whenever a cursor
\* is still in scope, so is its transaction.
CursorClosedBeforeTxnEnds ==
    \A c \in CurIds : cur[c].st = "live" => txn[cur[c].txn].st = "live"

\* C2: once commit has been called on a read-write transaction, the
\* finalizer's abort is never issued on that handle: no abort follows a
\* commit in the calls a handle receives.
NoAbortAfterCommit ==
    \A h \in TxnIds : \A i, j \in DOMAIN txn[h].calls :
        (i < j /\ txn[h].calls[i] = "commit") => txn[h].calls[j] # "abort"

\* C3: every foreign handle (galaxy, graph, transaction, cursor) is destroyed
\* exactly once on every exit path, failures of commit, close and abort
\* included: a wrapper that is gone has had exactly one destroy call.
DestroyedExactlyOnce ==
    /\ galaxy.st = "gone" => Count(galaxy.calls, "destroy") = 1
    /\ graph.st = "gone" => Count(graph.calls, "destroy") = 1
    /\ \A h \in TxnIds : txn[h].st = "gone" => Count(txn[h].calls, "destroy") = 1
    /\ \A c \in CurIds : cur[c].st = "gone" => Count(cur[c].calls, "destroy") = 1

\* C4: VertexCursor::seek(vid, nearest = false) on a vid that does not exist
\* returns normally, without error or panic, and leaves the cursor Invalid.
VertexSeekMissReturnsInvalid ==
    (last.op = "vertex_seek" /\ ~last.near /\ last.arg \notin verts)
        => (last.ok /\ ~last.panic /\ ~vpos.valid)

\* C5: EdgeCursor::seek always repositions the cursor, in debug and release
\* builds alike: to euid if it exists, else with nearest to the next greater
\* key, else to Invalid, and it returns normally.
EdgeSeekRepositions ==
    last.op = "edge_seek" =>
        /\ last.ok /\ ~last.panic
        /\ epos = (IF last.arg \in edges THEN At(last.arg)
                   ELSE IF last.near /\ \E k \in edges : k > last.arg
                        THEN At(Min({k \in edges : k > last.arg}))
                   ELSE Invalid)

\* C6: seek_to_next on a cursor that is already Invalid returns Ok(None),
\* neither an error nor a panic, and the cursor stays Invalid.
SeekToNextOnInvalidIsNoOp ==
    /\ (last.op = "vertex_seek_to_next" /\ ~last.pre.valid)
          => (last.ok /\ ~last.panic /\ last.val = "none" /\ vpos = Invalid)
    /\ (last.op = "edge_seek_to_next" /\ ~last.pre.valid)
          => (last.ok /\ ~last.panic /\ last.val = "none" /\ epos = Invalid)
\* A seek_to_next was made on an Invalid vertex cursor of a non-empty graph.
SeekToNextOnInvalidHappened ==
    /\ last.op = "vertex_seek_to_next" /\ ~last.pre.valid /\ last.val = "none"
    /\ verts # {} /\ vpos = Invalid

\* C7: every failure a foreign call reports reaches the caller as an Err whose
\* message is the reported one; none is discarded or replaced by a panic.
ForeignFailureReachesCaller ==
    last.fail # NullMsg => (~last.ok /\ last.msg = last.fail /\ ~last.panic)

\* C8: two pessimistic read-write transactions are never open on the same
\* graph at the same time.
PessimisticRw == {h \in TxnIds : txn[h].st = "live" /\ txn[h].kind = "rw" /\ ~txn[h].opt}
AtMostOnePessimisticRw == Cardinality(PessimisticRw) <= 1
\* One thread holds a pessimistic transaction while another waits for its own.
PessimisticHeldAndAwaited ==
    \E h \in PessimisticRw : \E t \in Threads : t # txn[h].owner /\ pc[t] = "blocked"

\* C9: create_rw_txn(false) called while another thread holds a pessimistic
\* transaction blocks until the holder commits or aborts and then returns a
\* transaction: it does not return while the other transaction is open, it
\* reports no error, and it does not stay blocked forever.
HeldByOther(t) == \E h \in PessimisticRw : txn[h].owner # t
CreateRwTxnWaitsStep ==
    \A t \in Threads :
        /\ (last'.op = "create_rw_txn" /\ last'.t = t /\ last'.val = "pessimistic"
               /\ ~EngThreadActive(t))
              => (last'.ok /\ ~HeldByOther(t) /\ txn'[last'.h].st = "live")
        /\ (last'.op = "create_rw_txn_call" /\ last'.t = t) => HeldByOther(t)
        /\ (pc[t] = "blocked" /\ HeldByOther(t)) => pc'[t] = "blocked"
OptimisticWriters(v) ==
    {h \in TxnIds : txn[h].kind = "rw" /\ txn[h].opt /\ txn[h].wrote
                       /\ txn[h].sver = v /\ txn[h].res # "none"}
OnlyOptimisticWriters ==
    \A h \in TxnIds : (txn[h].kind = "rw" /\ txn[h].wrote) => txn[h].opt
OptimisticOpenStep ==
    (last'.op = "create_rw_txn" /\ last'.val = "optimistic" /\ ~EngThreadActive(last'.t))
        => (last'.ok /\ txn'[last'.h].st = "live")
OptimisticCommitOutcome ==
    /\ \A h \in TxnIds : txn[h].st = "pending" => ~txn[h].opt
    /\ \A v \in 0..MaxTxn :
        /\ Cardinality({h \in OptimisticWriters(v) : txn[h].res = "ok"}) <= 1
        /\ \A h \in OptimisticWriters(v) :
              txn[h].res # "ok" => Kind(txn[h].res) = "TxnConflict"
        /\ (OnlyOptimisticWriters /\ OptimisticWriters(v) # {})
              => \E h \in OptimisticWriters(v) : txn[h].res = "ok"
OptimisticConcurrency == []OptimisticCommitOutcome /\ [][OptimisticOpenStep]_vars
\* Two optimistic writers of distinct threads committed: one won, one conflicted.
OptimisticConflictHappened ==
    \E g, h \in TxnIds :
        /\ txn[g].owner # txn[h].owner
        /\ {g, h} \subseteq OptimisticWriters(txn[g].sver)
        /\ txn[g].res = "ok" /\ Kind(txn[h].res) = "TxnConflict"

\* C11: while a thread holds an open transaction of any kind, a create_ro_txn
\* or create_rw_txn call made by that thread returns an error: it neither
\* succeeds nor blocks, and no transaction is opened.
HoldsTxn(t) == \E h \in TxnIds : txn[h].st = "live" /\ txn[h].owner = t
NestedCreateStep ==
    \A t \in Threads :
        (/\ last'.op \in {"create_ro_txn", "create_rw_txn", "create_rw_txn_call"}
         /\ last'.t = t
         /\ HoldsTxn(t))
            => (/\ last'.op # "create_rw_txn_call"
                /\ ~last'.ok /\ last'.msg # NullMsg
                /\ pc'[t] = "idle"
                /\ txn' = txn)
NestedCreateRefused == [][NestedCreateStep]_vars
\* A thread holding a read-write transaction asked for another and was refused.
NestedCreateHappened ==
    /\ last.op \in {"create_ro_txn", "create_rw_txn"} /\ ~last.ok
    /\ \E h \in TxnIds : txn[h].st = "live" /\ txn[h].owner = last.t /\ txn[h].kind = "rw"

\* C12: the writes of a read-write transaction that went out of scope without
\* commit, or whose commit returned an error, are never observable by a
\* transaction created afterwards: they are neither in the committed store nor
\* in the view of any transaction.
Unsuccessful(g) == txn[g].st = "gone" /\ txn[g].wrote /\ txn[g].res # "ok"
AbortedWritesInvisible ==
    \A g \in TxnIds :
        Unsuccessful(g) => (g \notin store /\ \A h \in TxnIds : g \notin txn[h].snap)
\* A transaction was just opened after one that wrote had ended without a
\* successful commit.
OpenedAfterAbortedWrites ==
    /\ last.op \in {"create_ro_txn", "create_rw_txn"} /\ last.ok
    /\ txn[last.h].st = "live"
    /\ \E g \in TxnIds : g # last.h /\ Unsuccessful(g)

\* ------------------------------------------------------- FieldData conversion
MaxLen == 3        \* strings and blobs have at most MaxLen bytes

\* The state of the handles, which the conversions do not touch.
hvars == <<faulty, build, galaxy, graph, txn, cur, pc, halted, version, store>>
hvars_but_pc == <<faulty, build, galaxy, graph, txn, cur, halted, version, store>>

\* Bytes: NUL, an ASCII letter, and a byte that occurs in no UTF-8 encoding.
Bytes == {0, 65, 255}
\* The bytes of a Rust String are valid UTF-8; U+0000 is a valid character.
StrBytes == {0, 65}
SeqsUpTo(S, n) == UNION {[1..k -> S] : k \in 0..n}

\* FieldData values, as [ty, n, ns, f, b]: n is the integer payload (a Bool
\* as 0 or 1, a Date as its day number, a DateTime as its seconds), ns the
\* nanoseconds of a DateTime (a chrono::NaiveDateTime), f a float ("NaN" or a
\* number), b the bytes of a String or Blob.
Floats == {"NaN", "0.0", "1.555"}
Field(ty, n, ns, f, b) == [ty |-> ty, n |-> n, ns |-> ns, f |-> f, b |-> b]
FieldValues ==
    {Field("Null", 0, 0, "", <<>>)}
    \cup {Field("Bool", i, 0, "", <<>>) : i \in {0, 1}}
    \cup {Field("Int8", i, 0, "", <<>>) : i \in {-128, 12, 127}}
    \cup {Field("Int16", i, 0, "", <<>>) : i \in {-32768, 257, 32767}}
    \cup {Field("Int32", i, 0, "", <<>>) : i \in {-65537, 0, 65537}}
    \cup {Field("Int64", i, 0, "", <<>>) : i \in {-2147483647, 1, 2147483647}}
    \cup {Field("Float", 0, 0, f, <<>>) : f \in Floats}
    \cup {Field("Double", 0, 0, f, <<>>) : f \in Floats}
    \cup {Field("Date", d, 0, "", <<>>) : d \in {1, 10000, 738000}}
    \cup {Field("DateTime", sec, n, "", <<>>) : sec \in {0, 1000000000}, n \in {0, 500}}
    \cup {Field("String", 0, 0, "", b) : b \in SeqsUpTo(StrBytes, MaxLen)}
    \cup {Field("Blob", 0, 0, "", b) : b \in SeqsUpTo(Bytes, MaxLen)}

\* #[derive(PartialEq)] on FieldData: same variant and equal payloads; a NaN
\* is equal to nothing.
FieldEq(x, y) == x = y /\ x.f # "NaN"

\* CStr::from_ptr(..).to_bytes(): the bytes before the first NUL.
CStrBytes(b) ==
    IF \E i \in DOMAIN b : b[i] = 0
    THEN SubSeq(b, 1, (CHOOSE i \in DOMAIN b : b[i] = 0 /\ \A j \in 1..(i - 1) : b[j] # 0) - 1)
    ELSE b

\* String::from_utf8_lossy over these bytes: an invalid byte becomes U+FFFD,
\* whose encoding is EF BF BD.
RECURSIVE Utf8Lossy(_)
Utf8Lossy(b) ==
    IF b = <<>> THEN <<>>
    ELSE (IF Head(b) = 255 THEN <<239, 191, 189>> ELSE <<Head(b)>>) \o Utf8Lossy(Tail(b))

\* ffi_util::to_rust_string / from_cstr
ToRustString(b) == Utf8Lossy(CStrBytes(b))

\* CString::new(s): refuses a string with an interior NUL.
CStringNewFails(b) == \E i \in DOMAIN b : b[i] = 0

\* The engine's field data keeps what the constructor was given: a value, the
\* bytes of a C string, or len bytes of a blob.
EngFieldData(ty, n, f, b) == [ty |-> ty, n |-> n, f |-> f, b |-> b]

\* FieldData::as_raw_field_data: panics where from_str unwraps a failed
\* CString::new; a Date goes as its day number, a DateTime as timestamp().
AsRawFieldData(x) ==
    IF x.ty = "String" /\ CStringNewFails(x.b)
    THEN [panic |-> TRUE, raw |-> EngFieldData("Null", 0, "", <<>>)]
    ELSE [panic |-> FALSE, raw |-> EngFieldData(x.ty, x.n, x.f, x.b)]

\* FieldData::from_raw_field_data: strings and blobs are read with
\* to_rust_string; a DateTime is rebuilt by from_timestamp_opt(secs, 0).
FromRawFieldData(raw) ==
    IF raw.ty \in {"String", "Blob"}
    THEN Field(raw.ty, raw.n, 0, raw.f, ToRustString(raw.b))
    ELSE Field(raw.ty, raw.n, 0, raw.f, raw.b)

FieldInit ==
    /\ faulty = FALSE
    /\ build = "release"
    /\ galaxy = [st |-> "live", calls |-> <<>>]
    /\ graph = [st |-> "live", calls |-> <<>>]
    /\ txn = [h \in TxnIds |-> NoTxn]
    /\ cur = [c \in CurIds |-> NoCur]
    /\ pc = [t \in Threads |-> "idle"]
    /\ halted = FALSE
    /\ version = 0
    /\ store = {}
    /\ verts = {} /\ edges = {} /\ vpos = Invalid /\ epos = Invalid
    /\ \E x \in FieldValues : last = [op |-> "field_data", x |-> x]

\* x.as_raw_field_data()
FieldAsRaw ==
    /\ last.op = "field_data"
    /\ LET r == AsRawFieldData(last.x)
       IN last' = [op |-> "as_raw_field_data", x |-> last.x, panic |-> r.panic, raw |-> r.raw]
    /\ UNCHANGED <<hvars, cvars>>

\* FieldData::from_raw_field_data(&raw)
FieldFromRaw ==
    /\ last.op = "as_raw_field_data" /\ ~last.panic
    /\ last' = [op |-> "from_raw_field_data", x |-> last.x, y |-> FromRawFieldData(last.raw)]
    /\ UNCHANGED <<hvars, cvars>>

FieldNext == FieldAsRaw \/ FieldFromRaw
FieldSpec == FieldInit /\ [][FieldNext]_vars

\* C13: for every FieldData value x of every variant, converting x to its
\* foreign representation and back yields a value equal to x, without panic.
FieldDataRoundTrip ==
    /\ last.op = "as_raw_field_data" => ~last.panic
    /\ last.op = "from_raw_field_data" => FieldEq(last.y, last.x)

\* ------------------------------------------------------ edge index iterators
\* The edges an index iterator can stand on.
IndexEdges == [src : Vids, dst : Vids, eid : Eids]

\* lgraph_api_edge_index_iterator_get_src / get_dst / get_edge_id / get_uid
EngIndexGetSrc(e) == e.src
EngIndexGetDst(e) == e.dst
EngIndexGetEdgeId(e) == e.eid
EngIndexGetUid(e) == e

\* RawEdgeIndexIterator: raw_edge_index_cursor_rustlize! hands
\* (get_uid, get_src, get_dst, get_edge_id) to raw_cursor_edge_ext_rustlize!,
\* whose parameters are (get_uid, get_dst, get_edge_id, get_src): each method
\* calls the foreign function bound to its parameter.
RawIndexGetUid(e) == EngIndexGetUid(e)
RawIndexGetDst(e) == EngIndexGetSrc(e)
RawIndexGetEdgeId(e) == EngIndexGetDst(e)
RawIndexGetSrc(e) == EngIndexGetEdgeId(e)

EdgeIndexInit ==
    /\ faulty = FALSE
    /\ build = "release"
    /\ galaxy = [st |-> "live", calls |-> <<>>]
    /\ graph = [st |-> "live", calls |-> <<>>]
    /\ txn = [h \in TxnIds |-> NoTxn]
    /\ cur = [c \in CurIds |-> NoCur]
    /\ pc = [t \in Threads |-> "idle"]
    /\ halted = FALSE
    /\ version = 0
    /\ store = {}
    /\ verts = {} /\ edges = {} /\ vpos = Invalid /\ epos = Invalid
    /\ \E e \in IndexEdges : last = [op |-> "edge_index", e |-> e]

\* EdgeIndexUids::next on a Valid iterator: EdgeUid::from_raw(get_uid())
EdgeIndexUidsNext ==
    /\ last.op = "edge_index"
    /\ last' = [op |-> "edge_index_uids", e |-> last.e, uid |-> RawIndexGetUid(last.e)]
    /\ UNCHANGED <<hvars, cvars>>

\* EdgeIndexSrcs::next on a Valid iterator: get_src()
EdgeIndexSrcsNext ==
    /\ last.op = "edge_index"
    /\ last' = [op |-> "edge_index_srcs", e |-> last.e, item |-> RawIndexGetSrc(last.e)]
    /\ UNCHANGED <<hvars, cvars>>

\* EdgeIndexDsts::next on a Valid iterator: get_dst()
EdgeIndexDstsNext ==
    /\ last.op = "edge_index"
    /\ last' = [op |-> "edge_index_dsts", e |-> last.e, item |-> RawIndexGetDst(last.e)]
    /\ UNCHANGED <<hvars, cvars>>

\* EdgeIndexEdgeIds::next on a Valid iterator: get_edge_id()
EdgeIndexEdgeIdsNext ==
    /\ last.op = "edge_index"
    /\ last' = [op |-> "edge_index_eids", e |-> last.e, item |-> RawIndexGetEdgeId(last.e)]
    /\ UNCHANGED <<hvars, cvars>>

EdgeIndexNext ==
    \/ EdgeIndexUidsNext
    \/ EdgeIndexSrcsNext
    \/ EdgeIndexDstsNext
    \/ EdgeIndexEdgeIdsNext
EdgeIndexSpec == EdgeIndexInit /\ [][EdgeIndexNext]_vars

\* C14: for every edge an edge index iterator visits, the srcs, dsts and eids
\* iterators yield the source vertex id, the destination vertex id and the
\* edge id of that edge: the components of the EdgeUid the uids iterator yields.
EdgeIndexProjections ==
    /\ last.op = "edge_index_uids" => last.uid = last.e
    /\ last.op = "edge_index_srcs" => last.item = RawIndexGetUid(last.e).src
    /\ last.op = "edge_index_dsts" => last.item = RawIndexGetUid(last.e).dst
    /\ last.op = "edge_index_eids" => last.item = RawIndexGetUid(last.e).eid

\* ------------------------------------------------------------ vertex delete
MaxEdges == 2      \* edges in the graph a mutable cursor deletes from

\* The edges of a graph over the vertices V, as [src, dst]; no self loops.
EdgesOver(V) == {e \in [src : V, dst : V] : e.src # e.dst}
InEdges(E, v) == {e \in E : e.dst = v}
OutEdges(E, v) == {e \in E : e.src = v}

\* lgraph_api_vertex_iterator_delete(it, &n_in_edges, &n_out_edges): removes
\* the current vertex and its incident edges, reports how many in-edges and
\* out-edges went with it, and moves to the following vertex.
EngVertexDelete(V, E, p) ==
    [verts |-> V \ {p.key},
     edges |-> E \ (InEdges(E, p.key) \cup OutEdges(E, p.key)),
     pos |-> EngNext(V, p),
     n_in_edges |-> Cardinality(InEdges(E, p.key)),
     n_out_edges |-> Cardinality(OutEdges(E, p.key))]

\* A delete that never reaches the engine.
NoDelete(V, E, p) ==
    [verts |-> V, edges |-> E, pos |-> p, n_in_edges |-> 0, n_out_edges |-> 0]

\* RawVertexCursor::delete: one foreign delete; Ok((n_in_edges, n_out_edges)).
RawVertexDelete(V, E, p) == EngVertexDelete(V, E, p)
RawVertexDeleteRet(d) == <<d.n_in_edges, d.n_out_edges>>

\* VertexCursorMut::delete on VertexCurMut: self.as_raw().delete()
VertexDelete ==
    /\ Running(1)
    /\ \E f \in Faults :
        LET e == IF f # NullMsg THEN f ELSE EngAccessErr(vpos)
            d == RawVertexDelete(verts, edges, vpos)
            r == FfiTry(e, 0)
        IN /\ verts' = IF r.ok THEN d.verts ELSE verts
           /\ edges' = IF r.ok THEN d.edges ELSE edges
           /\ vpos' = IF r.ok THEN d.pos ELSE vpos
           /\ last' = [op |-> "vertex_delete", ok |-> r.ok, msg |-> r.msg, panic |-> FALSE,
                       pre |-> vpos, pverts |-> verts, pedges |-> edges,
                       ret |-> IF r.ok THEN RawVertexDeleteRet(d) ELSE <<0, 0>>]
    /\ UNCHANGED <<hvars, epos>>

\* A mutable vertex cursor of a read-write transaction over any graph within
\* the bounds; here edges holds the edges of the graph.
DeleteInit ==
    /\ faulty = FALSE
    /\ build \in {"debug", "release"}
    /\ galaxy = [st |-> "live", calls |-> <<>>]
    /\ graph = [st |-> "live", calls |-> <<>>]
    /\ txn = [h \in TxnIds |-> NoTxn]
    /\ cur = [c \in CurIds |-> NoCur]
    /\ pc = [t \in Threads |-> "idle"]
    /\ halted = FALSE
    /\ version = 0
    /\ store = {}
    /\ verts \in SUBSET Vids
    /\ edges \in {E \in SUBSET EdgesOver(verts) : Cardinality(E) <= MaxEdges}
    /\ vpos = EngFirst(verts)
    /\ epos = Invalid
    /\ last = NoOp

DeleteNext ==
    \/ VertexDelete
    \/ VertexSeekToNext
    \/ \E v \in Vids, n \in BOOLEAN : VertexSeek(v, n)
DeleteSpec == DeleteInit /\ [][DeleteNext]_vars

\* C15: VertexCursorMut::delete returns the pair (number of deleted vertices,
\* number of deleted edges) for the deletion it performed.
DeleteReturnsVerticesAndEdges ==
    (last.op = "vertex_delete" /\ last.ok) =>
        last.ret = <<Cardinality(last.pverts \ verts), Cardinality(last.pedges \ edges)>>

\* C16: after delete() on a Valid mutable vertex cursor, the vertex and all its
\* in- and out-edges no longer exist in the transaction's view, every other
\* vertex and edge still does, and the cursor is on the vertex that followed
\* the deleted one in key order, or Invalid if the deleted one was the last.
DeleteRemovesVertexAndAdvances ==
    (last.op = "vertex_delete" /\ last.pre.valid /\ last.ok) =>
        LET v == last.pre.key
            following == {k \in last.pverts : k > v}
        IN /\ verts = last.pverts \ {v}
           /\ edges = {e \in last.pedges : e.src # v /\ e.dst # v}
           /\ vpos = (IF following = {} THEN Invalid
                      ELSE At(CHOOSE k \in following : \A j \in following : k <= j))
\* A vertex with an in-edge and an out-edge, and with a vertex after it, was
\* deleted.
DeletedVertexWithEdges ==
    /\ last.op = "vertex_delete" /\ last.pre.valid /\ last.ok
    /\ InEdges(last.pedges, last.pre.key) # {}
    /\ OutEdges(last.pedges, last.pre.key) # {}
    /\ vpos.valid

\* ------------------------------------------- a fresh cursor, run to its end
\* Calls made on one cursor or adaptor are followed until it has been asked
\* this many times more than there are vertex ids.
MaxExtraCalls == 2
MaxCalls == Cardinality(Vids) + MaxExtraCalls

\* An adaptor that yields whatever the cursor's state.
YieldAlways(p) == "some"

\* IntoVertexIds::next: if !self.cursor.is_valid() { return None; } .. Some(id)
IterYield(p) == IF ~p.valid THEN "none" ELSE "some"

\* What is recorded of a scan: the call, how many calls were made since the
\* cursor was created (n), what the last one returned (val), and in items the
\* ids the cursor has stood on, or the ids the adaptor has yielded, in order.
Scan(name, n, val, items) == [op |-> name, n |-> n, val |-> val, items |-> items]

\* TxnRead::vertex_cur, then either the cursor is advanced by hand or it is
\* turned into an adaptor (VertexCursor::into_vertex_ids).
ScanInit ==
    /\ faulty = FALSE
    /\ build \in {"debug", "release"}
    /\ galaxy = [st |-> "live", calls |-> <<>>]
    /\ graph = [st |-> "live", calls |-> <<>>]
    /\ txn = [h \in TxnIds |-> NoTxn]
    /\ cur = [c \in CurIds |-> NoCur]
    /\ pc = [t \in Threads |-> "idle"]
    /\ halted = FALSE
    /\ version = 0
    /\ store = {}
    /\ verts \in SUBSET Vids
    /\ edges = {}
    /\ vpos = EngFirst(verts)
    /\ epos = Invalid
    /\ \E name \in {"vertex_cur", "into_vertex_ids"} :
          last = Scan(name, 0, "", IF name = "vertex_cur" /\ vpos.valid
                                   THEN <<vpos.key>> ELSE <<>>)

\* VertexCursor::seek_to_next on the cursor, one more time.
ScanSeekToNext ==
    /\ last.op \in {"vertex_cur", "vertex_seek_to_next"} /\ last.n < MaxCalls
    /\ \E f \in Faults :
        LET p == IF f # NullMsg THEN vpos ELSE EngNext(verts, vpos)
            r == FfiTry(f, p.valid)
        IN /\ vpos' = p
           /\ last' = Scan("vertex_seek_to_next", last.n + 1,
                           IF r.ok THEN SeekToNextVal(r.val) ELSE "",
                           IF p.valid THEN Append(last.items, p.key) ELSE last.items)
    /\ UNCHANGED <<hvars, verts, edges, epos>>

\* IntoVertexIds::next on the adaptor, one more time.
ScanIterNext ==
    /\ last.op \in {"into_vertex_ids", "into_vertex_ids_next"} /\ last.n < MaxCalls
    /\ \E fi \in Faults, fn \in Faults :
        LET y == IterYield(vpos)
            idr == FfiTry(IF fi # NullMsg THEN fi ELSE EngAccessErr(vpos), vpos.key)
            p == IF y = "some" /\ idr.ok /\ fn = NullMsg THEN EngNext(verts, vpos) ELSE vpos
        IN /\ vpos' = p
           /\ last' = IF y = "some" /\ ~idr.ok      \* .expect(..) on a failed read
                      THEN Scan("into_vertex_ids_panic", last.n + 1, "panic", last.items)
                      ELSE Scan("into_vertex_ids_next", last.n + 1, y,
                                IF y = "some" THEN Append(last.items, idr.val)
                                ELSE last.items)
    /\ UNCHANGED <<hvars, verts, edges, epos>>

ScanNext == ScanSeekToNext \/ ScanIterNext
ScanSpec == ScanInit /\ [][ScanNext]_vars

\* The n smallest elements of S, in ascending order.
RECURSIVE Ascending(_, _)
Ascending(S, n) ==
    IF n = 0 \/ S = {} THEN <<>>
    ELSE LET m == CHOOSE x \in S : \A y \in S : x <= y
         IN <<m>> \o Ascending(S \ {m}, n - 1)
NVerts == Cardinality(verts)

\* C17: a fresh vertex cursor over N >= 1 vertices is Valid; each of the first
\* N-1 seek_to_next calls reports a next element and leaves the cursor Valid
\* on a vertex not visited before; the N-th reports no next and leaves the
\* cursor Invalid: exactly N advances are needed to reach Invalid.
NAdvancesReachInvalid ==
    NVerts >= 1 =>
        /\ last.op = "vertex_cur" => vpos.valid
        /\ last.op = "vertex_seek_to_next" =>
            /\ last.n < NVerts =>
                  /\ last.val = "some" /\ vpos.valid
                  /\ \A i \in 1..(Len(last.items) - 1) : last.items[i] # vpos.key
                  /\ Len(last.items) = last.n + 1
            /\ last.n = NVerts => (last.val = "none" /\ ~vpos.valid)
            /\ ~vpos.valid => last.n >= NVerts
\* The cursor over all the vertex ids has just been advanced to Invalid.
AdvancedToInvalid ==
    /\ last.op = "vertex_seek_to_next" /\ verts = Vids
    /\ last.n = NVerts /\ last.val = "none" /\ ~vpos.valid
    /\ Len(last.items) = NVerts

\* C19: consuming a lazy adaptor built from a fresh cursor over N elements
\* yields exactly N items, one per element, in ascending key order, and every
\* later pull yields None.
AdaptorYieldsEachOnce ==
    /\ last.op # "into_vertex_ids_panic"
    /\ last.op = "into_vertex_ids_next" =>
        /\ last.items = Ascending(verts, IF last.n < NVerts THEN last.n ELSE NVerts)
        /\ last.val = "some" <=> last.n <= NVerts
\* The adaptor over all the vertex ids was pulled twice after its last item.
AdaptorExhausted ==
    /\ last.op = "into_vertex_ids_next" /\ verts = Vids
    /\ last.n = NVerts + 2 /\ last.val = "none" /\ Len(last.items) = NVerts

MaxNameLen == 2
\* Field names, as the bytes of a &str.
Names == SeqsUpTo(StrBytes, MaxNameLen)

\* VertexCursor: id, label, lid, field, fields, all_fields.
VertexAccessors == {"id", "label", "lid", "field", "fields", "all_fields"}
\* EdgeCursor: uid, src, dst, eid, tid, label, lid, field, fields, all_fields.
EdgeAccessors == {"uid", "src", "dst", "eid", "tid", "label", "lid",
                  "field", "fields", "all_fields"}
\* get_field_by_name and get_fields_by_names turn each name into a CString
\* first: name.into_c_string().unwrap()
TakesName(acc) == acc \in {"field", "fields"}
NameUnwrapPanics(acc, name) == TakesName(acc) /\ CStringNewFails(name)

\* One accessor call on the cursor at position p: the name is converted, then
\* the engine is called through ffi_try!, and the result is mapped.
Access(kind, acc, name, p) ==
    LET panic == NameUnwrapPanics(acc, name)
        r == FfiTry(EngAccessErr(p), 0)
    IN [op |-> "access", kind |-> kind, acc |-> acc, name |-> name, pre |-> p,
        panic |-> panic, ok |-> ~panic /\ r.ok,
        msg |-> IF panic THEN NullMsg ELSE r.msg]

VertexAccess(acc, name) ==
    /\ Running(1)
    /\ TakesName(acc) \/ name = <<>>
    /\ CursorStep(Access("vertex", acc, name, vpos))
    /\ UNCHANGED <<hvars_but_pc, cvars>>

EdgeAccess(acc, name) ==
    /\ Running(1)
    /\ TakesName(acc) \/ name = <<>>
    /\ CursorStep(Access("edge", acc, name, epos))
    /\ UNCHANGED <<hvars_but_pc, cvars>>

AccessNext ==
    \/ \E acc \in VertexAccessors, name \in Names : VertexAccess(acc, name)
    \/ \E acc \in EdgeAccessors, name \in Names : EdgeAccess(acc, name)
    \/ VertexSeekToNext
    \/ EdgeSeekToNext
AccessSpec == CursorInit /\ [][AccessNext]_vars

\* C20: an accessor (id, label, lid, field, fields, all_fields, uid, src, dst,
\* eid, tid) called on an Invalid cursor returns Err with the engine's error;
\* it never panics and never returns Ok.
AccessorOnInvalidErrs ==
    (last.op = "access" /\ ~last.pre.valid) =>
        /\ ~last.panic /\ ~last.ok
        /\ last.msg = InvalidIteratorMsg

\* ------------------------------------------- the protocol of a foreign call
\* What a foreign call leaves behind: the error slot, the primary return value
\* and one out-parameter, each of the last two anything in 0..MaxRet when the
\* call failed.
MaxRet == 2
Rets == 0..MaxRet
ForeignErrs == {NullMsg, IOErrorMsg, InvalidIteratorMsg, "Other Unkown error."}

\* A mapping that reads the out-parameter whatever the result.
MapOutAlways(r, out) == Ok(<<r.val, out>>)

\* Result::map(|b| (b, n_modified)): the closure runs on Ok only.
MapOut(r, out) == IF r.ok THEN Ok(<<r.val, out>>) ELSE r

\* RawVertexCursor::get_id: ffi_try! { get_id(self.inner) }
RawGetId(err, res, out) ==
    LET r == FfiTry(err, res)
    IN [ret |-> r, used |-> IF r.ok THEN {"result"} ELSE {}]

\* A wrapper that returns n_modified as it was before the call.
DeleteVertexLabelCountUnset(err, res, out) ==
    LET r == FfiTry(err, res)
    IN [ret |-> IF r.ok THEN Ok(<<r.val, 0>>) ELSE r,
        used |-> IF r.ok THEN {"result"} ELSE {}]

\* RawGraphDB::delete_vertex_label:
\*   ffi_try! { delete_vertex_label(.., &mut n_modified) }.map(|b| (b, n_modified))
RawDeleteVertexLabel(err, res, out) ==
    LET r == MapOut(FfiTry(err, res), out)
    IN [ret |-> r, used |-> IF r.ok THEN {"result", "out"} ELSE {}]

\* RawVertexCursor::list_src_vids:
\*   let len = ffi_try! { list_src_vids(.., &mut more_to_go, &mut cvids) }?;
\*   let vids = slice::from_raw_parts(cvids, len).to_vec(); ..; Ok((more_to_go, vids))
RawListSrcVids(err, res, out) ==
    LET len == FfiTry(err, res)
    IN IF ~len.ok THEN [ret |-> len, used |-> {}]
       ELSE [ret |-> Ok(<<out, len.val>>), used |-> {"result", "out"}]

Ffi(name, err, res, out, w) ==
    [op |-> name, err |-> err, res |-> res, out |-> out, ret |-> w.ret, used |-> w.used]

FfiGetId ==
    \E err \in ForeignErrs, res \in Rets, out \in Rets :
        /\ last' = Ffi("get_id", err, res, out, RawGetId(err, res, out))
        /\ UNCHANGED <<hvars, cvars>>
FfiDeleteVertexLabel ==
    \E err \in ForeignErrs, res \in Rets, out \in Rets :
        /\ last' = Ffi("delete_vertex_label", err, res, out, RawDeleteVertexLabel(err, res, out))
        /\ UNCHANGED <<hvars, cvars>>
FfiListSrcVids ==
    \E err \in ForeignErrs, res \in Rets, out \in Rets :
        /\ last' = Ffi("list_src_vids", err, res, out, RawListSrcVids(err, res, out))
        /\ UNCHANGED <<hvars, cvars>>

FfiNext == FfiGetId \/ FfiDeleteVertexLabel \/ FfiListSrcVids
\* The calls are followed on the cursors of an empty graph, in either build.
FfiInit == CursorInit /\ verts = {} /\ edges = {}
FfiSpec == FfiInit /\ [][FfiNext]_vars

FfiOps == {"get_id", "delete_vertex_label", "list_src_vids"}

\* C21: for every fallible foreign call, a non-null error slot makes the wrapper
\* return Err built from the message, with neither the primary return value nor
\* an out-parameter used; a null slot makes it return Ok with the value.
ErrorSlotDecides ==
    last.op \in FfiOps =>
        IF last.err # NullMsg
        THEN /\ ~last.ret.ok /\ last.ret.msg = last.err /\ last.ret.val = 0
             /\ last.used = {}
        ELSE /\ last.ret.ok
             /\ last.ret.val = (CASE last.op = "get_id" -> last.res
                                  [] last.op = "delete_vertex_label" -> <<last.res, last.out>>
                                  [] last.op = "list_src_vids" -> <<last.out, last.res>>)
\* A call that wrote a result and an out-parameter and also reported an error.
FailedCallLeftValues ==
    /\ last.op = "delete_vertex_label" /\ last.err = IOErrorMsg
    /\ last.res # 0 /\ last.out # 0 /\ ~last.ret.ok

\* ------------------------------------------------- the error and its kind
\* A foreign message text is written as a text (base) followed by further
\* bytes (tail); the tail holds no NUL, a C string ends at the first one.
MaxTail == 2
TailBytes == {65, 255}
\* The texts Error::kind knows.
KnownTexts ==
    {"Invalid parameter.", "Invalid Galaxy.", "Invalid GraphDB.", "Invalid transaction.",
     "Invalid iterator.", "Write transactions cannot be forked.",
     "Transaction conflicts with an earlier one.", "Access denied.",
     "The specified TuGraph DB does not exist.", "IO Error.", "Unauthorized."}
OtherTexts == {"", "Other Unkown error.", "Out of range."}
Texts == KnownTexts \cup OtherTexts
ForeignTexts == {[base |-> s, tail |-> b] : s \in Texts, b \in SeqsUpTo(TailBytes, MaxTail)}

\* A conversion that keeps every byte.
KeepBytes(m) == m

\* ffi_util::error_message: to_rust_string(ptr)
ErrorMessage(m) == [base |-> m.base, tail |-> ToRustString(m.tail)]
\* Error::new, Error::msg
ErrorNew(message) == [message |-> message]
ErrorMsg(e) == e.message
\* Error::kind: match self.message.as_str() { "..." => .., _ => Other }; a text
\* with further bytes after it equals no entry of the table.
ErrorKind(e) == IF e.message.tail = <<>> THEN Kind(e.message.base) ELSE "Other"

\* The exceptions of the engine, named as the kinds of ErrorKind, and the text
\* each one carries.  The text of OutOfRangeError and of the exceptions that
\* are no engine exception is not fixed.
Exceptions ==
    {"InvalidParameter", "OutOfRange", "InvalidGalaxy", "InvalidGraphDB", "InvalidTxn",
     "InvalidIterator", "InvalidFork", "TxnConflict", "WriteNotAllowed", "DBNotExist",
     "IOError", "Unauthorized", "Other"}
EngWhat(exc) ==
    CASE exc = "InvalidParameter" -> {"Invalid parameter."}
      [] exc = "InvalidGalaxy" -> {"Invalid Galaxy."}
      [] exc = "InvalidGraphDB" -> {"Invalid GraphDB."}
      [] exc = "InvalidTxn" -> {"Invalid transaction."}
      [] exc = "InvalidIterator" -> {"Invalid iterator."}
      [] exc = "InvalidFork" -> {"Write transactions cannot be forked."}
      [] exc = "TxnConflict" -> {"Transaction conflicts with an earlier one."}
      [] exc = "WriteNotAllowed" -> {"Access denied."}
      [] exc = "DBNotExist" -> {"The specified TuGraph DB does not exist."}
      [] exc = "IOError" -> {"IO Error."}
      [] exc = "Unauthorized" -> {"Unauthorized."}
      [] exc = "OutOfRange" -> Texts
      [] exc = "Other" -> OtherTexts

Translated(name, exc, m) ==
    LET e == ErrorNew(ErrorMessage(m))
    IN [op |-> name, exc |-> exc, foreign |-> m, msg |-> ErrorMsg(e), kind |-> ErrorKind(e)]

\* ffi_try! on a call that left the text m in the error slot.
ErrTranslate ==
    \E m \in ForeignTexts :
        /\ last' = Translated("error", "", m)
        /\ UNCHANGED <<hvars, cvars>>
\* The engine raises one of its exceptions under a foreign call.
ErrRaise ==
    \E exc \in Exceptions, s \in Texts :
        /\ s \in EngWhat(exc)
        /\ last' = Translated("raise", exc, [base |-> s, tail |-> <<>>])
        /\ UNCHANGED <<hvars, cvars>>

ErrNext == ErrTranslate \/ ErrRaise
ErrSpec == FfiInit /\ [][ErrNext]_vars

ValidUtf8(b) == \A i \in DOMAIN b : b[i] # 255
InTable(m) == m.tail = <<>> /\ m.base \in KnownTexts

KindIsItsException ==
    last.op = "raise" => last.kind = last.exc

\* C24: a transaction never outlives its graph: its handle has been aborted and
\* destroyed before the Graph it was created from is closed and destroyed.
\* Once the graph's finalizer has run, no transaction is still to be ended.
TxnEndsBeforeGraph ==
    graph.st = "gone" =>
        \A h \in TxnIds :
            \/ txn[h].st = "none"
            \/ /\ txn[h].st = "gone"
               /\ Count(txn[h].calls, "abort") = 1 /\ Count(txn[h].calls, "destroy") = 1

\* --------------------------------------------- operations on a cursor handle
\* A cursor that is merely still in scope.
CursorInScope(t, c) == cur[c].st = "live"

\* VertexCur<'txn> and VertexCurMut<'txn> come from vertex_cur(&self) and
\* vertex_cur_mut(&self): a call on the cursor keeps the borrow of the
\* transaction alive up to that call, so the transaction has not been moved
\* into commit or dropped before it.
CursorBorrowAlive(t, c) == cur[c].st = "live" /\ TxnUsable(t, cur[c].txn)

\* The operations of VertexCursor (field, seek, seek_to_next) and of
\* VertexCursorMut (set_field, delete); the latter exist on the cursors of a
\* read-write transaction only.
CursorOps == {"field", "seek", "seek_to_next", "set_field", "delete"}
CursorMutOps == {"set_field", "delete"}

CursorUse(t, c, op) ==
    /\ Running(t) /\ CursorBorrowAlive(t, c)
    /\ op \in CursorMutOps => txn[cur[c].txn].kind = "rw"
    /\ last' = Op(op, t, c, Ok(0))
    /\ UNCHANGED <<hvars, cvars>>

BorrowNext ==
    \/ CreateRoTxn(1)
    \/ \E o \in BOOLEAN : CreateRwTxn(1, o)
    \/ \E h \in TxnIds : Commit(1, h)
    \/ \E h \in TxnIds : DropTxn(1, h)
    \/ \E h \in TxnIds : CreateCursor(1, h)
    \/ \E c \in CurIds : DropCursor(1, c)
    \/ \E c \in CurIds, op \in CursorOps : CursorUse(1, c, op)
BorrowSpec == Init /\ [][BorrowNext]_vars

\* C25: after a transaction has been consumed by commit, or aborted, no read,
\* seek, advance, write or delete is issued on a cursor created from it: the
\* transaction of a cursor that has just been operated on is in scope and has
\* received neither commit nor abort.
NoCursorOpAfterTxnEnd ==
    last.op \in CursorOps =>
        /\ txn[cur[last.h].txn].st = "live"
        /\ txn[cur[last.h].txn].calls = <<>>
\* A transaction was committed while a cursor created from it was in scope.
CommittedUnderCursor ==
    /\ last.op = "commit"
    /\ \E c \in CurIds : cur[c].st = "live" /\ cur[c].txn = last.h
    /\ txn[last.h].st = "gone"

\* ------------------------------------------- transactions and their threads
\* unsafe impl Sync for RoTxn<'_> {}: a &RoTxn can be captured by the closure
\* of another thread (thread::scope); RwTxn holds a raw pointer and has no
\* such impl, so it is reachable from the thread that owns it only.
Shareable(h) == txn[h].kind = "ro"
TxnReachable(t, h) ==
    /\ txn[h].st = "live" /\ graph.st = "live"
    /\ txn[h].owner = t \/ Shareable(h)

\* A method of TxnRead (impl<T: AsRawTransaction> TxnRead for T, all of them
\* on &self) called by thread t on transaction h.
TxnReadCall(t, h) ==
    /\ Running(t) /\ TxnReachable(t, h)
    /\ \E f \in Faults : last' = Op("txn_read", t, h, FfiTry(f, 0))
    /\ UNCHANGED <<hvars, cvars>>

\* A fork that begins a read-only transaction of its own:
\* lgraph_api_graph_db_create_read_txn(self.inner).
RawCreateReadTxn(h) == [sver |-> version, snap |-> store]
\* RawGraphDB::fork_txn(txn): lgraph_api_graph_db_fork_txn(self.inner, txn.as_ptr()),
\* which gives a transaction on the view of txn.
RawForkTxn(h) == [sver |-> txn[h].sver, snap |-> txn[h].snap]

\* Graph::fork_ro_txn(&self, txn: &RoTxn) called by thread t: the copy has the
\* view of the forked transaction and belongs to the calling thread, which
\* the engine refuses when that thread has an active transaction.
ForkRoTxn(t, h) ==
    /\ Running(t) /\ GraphUsable /\ TxnReachable(t, h) /\ txn[h].kind = "ro"
    /\ FreeTxns # {}
    /\ \E f \in Faults :
        LET e == IF f # NullMsg THEN f ELSE EngCreateTxnErr(t)
            r == FfiTry(e, NewTxn)
        IN /\ txn' = IF r.ok
                     THEN [txn EXCEPT ![NewTxn] = [NoTxn EXCEPT !.st = "live", !.owner = t,
                               !.kind = "ro", !.eng = "active", !.sver = RawForkTxn(h).sver,
                               !.snap = RawForkTxn(h).snap]]
                     ELSE txn
           /\ last' = [Op("fork_ro_txn", t, IF r.ok THEN r.val ELSE 0, r) EXCEPT !.arg = h]
    /\ UNCHANGED <<faulty, build, cvars, galaxy, graph, cur, pc, halted, version, store>>

ShareNext ==
    \/ \E t \in Threads : CreateRoTxn(t)
    \/ \E t \in Threads : CreateRwTxn(t, TRUE)
    \/ \E t \in Threads, h \in TxnIds : AddVertex(t, h)
    \/ \E t \in Threads, h \in TxnIds : Commit(t, h)
    \/ \E t \in Threads, h \in TxnIds : DropTxn(t, h)
    \/ \E t \in Threads, h \in TxnIds : TxnReadCall(t, h)
    \/ \E t \in Threads, h \in TxnIds : ForkRoTxn(t, h)
ShareSpec == Init /\ [][ShareNext]_vars

\* C26: no transaction is accessed from a thread other than the one that
\* created it; the only transaction handed to another thread is one produced
\* by forking a read-only transaction.
TxnUsedByItsThreadOnly ==
    last.op = "txn_read" => txn[last.h].owner = last.t

\* ------------------------------------------------- users and authorization
\* In this part the galaxy record also holds what the engine keeps about
\* users: the user of the session (user), the existing users, the
\* administrators among them and the disabled ones.
Users == {"admin", "u1", "u2"}
UserOps == {"create_user", "delete_user", "disable_user", "set_password",
            "set_user_roles", "set_user_graph_access"}

\* The texts with which the engine refuses a user without the right.
EngAuthErrs == {"Access denied.", "Unauthorized."}
EngIsAdmin(s) == s \in galaxy.admins
\* The engine refuses every one of these operations to a user who is no
\* administrator, except the change of that user's own password.
EngUserOpDenied(s, op, u) == ~EngIsAdmin(s) /\ ~(op = "set_password" /\ u = s)
\* Whether the operation, once allowed, changes anything.
EngUserOpApplies(s, op, u) ==
    CASE op = "create_user" -> u \notin galaxy.users
      [] op \in {"delete_user", "disable_user"} -> u \in galaxy.users /\ u # s
      [] OTHER -> u \in galaxy.users
\* What the engine keeps after the operation was applied; roles is the new
\* set of roles of u, as whether it holds the administrator's.
EngUsersAfter(op, u, roles) ==
    CASE op = "create_user" -> [galaxy EXCEPT !.users = @ \cup {u}]
      [] op = "delete_user" -> [galaxy EXCEPT !.users = @ \ {u}, !.admins = @ \ {u},
                                              !.disabled = @ \ {u}]
      [] op = "disable_user" -> [galaxy EXCEPT !.disabled = @ \cup {u}]
      [] op = "set_user_roles" ->
            [galaxy EXCEPT !.admins = IF roles THEN @ \cup {u} ELSE @ \ {u}]
      [] OTHER -> galaxy

\* Galaxy::create_user, delete_user, disable_user, set_password,
\* set_user_roles, set_user_graph_access: each hands its arguments to the
\* raw call, which is one foreign call under ffi_try!.
GalaxyUserOp(op, u) ==
    /\ Running(1) /\ galaxy.st = "live"
    /\ \E m \in EngAuthErrs, roles \in BOOLEAN :
        LET s == galaxy.user
            denied == EngUserOpDenied(s, op, u)
            applies == ~denied /\ EngUserOpApplies(s, op, u)
            r == FfiTry(IF denied THEN m ELSE NullMsg, applies)
        IN /\ galaxy' = IF r.ok /\ r.val THEN EngUsersAfter(op, u, roles) ELSE galaxy
           /\ last' = [op |-> op, session |-> s, admin |-> EngIsAdmin(s), target |-> u,
                       ok |-> r.ok, msg |-> r.msg,
                       kind |-> IF r.ok THEN "" ELSE Kind(r.msg)]
    /\ UNCHANGED <<faulty, build, graph, txn, cur, pc, halted, version, store, cvars>>

\* Galaxy::set_current_user: the session continues as another existing user
\* that is not disabled.
GalaxySetCurrentUser(u) ==
    /\ Running(1) /\ galaxy.st = "live"
    /\ LET r == FfiTry(IF u \in galaxy.users \ galaxy.disabled THEN NullMsg
                       ELSE "Unauthorized.", 0)
       IN /\ galaxy' = IF r.ok THEN [galaxy EXCEPT !.user = u] ELSE galaxy
          /\ last' = [op |-> "set_current_user", session |-> galaxy.user,
                      admin |-> EngIsAdmin(galaxy.user), target |-> u,
                      ok |-> r.ok, msg |-> r.msg,
                      kind |-> IF r.ok THEN "" ELSE Kind(r.msg)]
    /\ UNCHANGED <<faulty, build, graph, txn, cur, pc, halted, version, store, cvars>>

\* A fresh galaxy opened as its administrator.
AuthInit ==
    /\ faulty = FALSE
    /\ build = "release"
    /\ galaxy = [st |-> "live", calls |-> <<>>, user |-> "admin", users |-> {"admin"},
                 admins |-> {"admin"}, disabled |-> {}]
    /\ graph = [st |-> "live", calls |-> <<>>]
    /\ txn = [h \in TxnIds |-> NoTxn]
    /\ cur = [c \in CurIds |-> NoCur]
    /\ pc = [t \in Threads |-> "idle"]
    /\ halted = FALSE
    /\ version = 0
    /\ store = {}
    /\ verts = {} /\ edges = {} /\ vpos = Invalid /\ epos = Invalid
    /\ last = [op |-> "open", session |-> "admin", admin |-> TRUE, target |-> "admin",
               ok |-> TRUE, msg |-> NullMsg, kind |-> ""]

AuthNext ==
    \/ \E op \in UserOps, u \in Users : GalaxyUserOp(op, u)
    \/ \E u \in Users : GalaxySetCurrentUser(u)
AuthSpec == AuthInit /\ [][AuthNext]_vars

IdxVals == {17, 18, 20, 21}
Int8Field(n) == Field("Int8", n, 0, "", <<>>)
IndexContents ==
    {{[id |-> i, v |-> f[i]] : i \in V} : f \in [Vids -> IdxVals], V \in SUBSET Vids}

\* The order of an index: by value, then by vertex id.
IdxBefore(a, b) == a.v < b.v \/ (a.v = b.v /\ a.id < b.id)
IdxMin(S) == CHOOSE x \in S : \A y \in S : x = y \/ IdxBefore(x, y)
\* The engine's iterator over the entries with key_start <= v <= key_end.
EngIndexInRange(I, ks, ke) == {x \in I : ks.n <= x.v /\ x.v <= ke.n}
EngIndexFirst(I, ks, ke) ==
    LET R == EngIndexInRange(I, ks, ke)
    IN IF R = {} THEN [valid |-> FALSE, key |-> [id |-> 0, v |-> 0], ks |-> ks, ke |-> ke]
       ELSE [valid |-> TRUE, key |-> IdxMin(R), ks |-> ks, ke |-> ke]
EngIndexNext(I, p) ==
    LET R == {x \in EngIndexInRange(I, p.ks, p.ke) : IdxBefore(p.key, x)}
    IN IF ~p.valid \/ R = {} THEN [p EXCEPT !.valid = FALSE] ELSE [p EXCEPT !.key = IdxMin(R)]

\* Keys handed over in the other order.
KeysSwapped(start, end) == <<end, start>>
\* get_vertex_index_iterator_by_data(label, field,
\*     &start.as_raw_field_data(), &end.as_raw_field_data())
IndexKeys(start, end) == <<start, end>>

IndexScan(name, start, end, n, val, items) ==
    [op |-> name, start |-> start, end |-> end, n |-> n, val |-> val, items |-> items]

IndexInit ==
    /\ faulty = FALSE
    /\ build = "release"
    /\ galaxy = [st |-> "live", calls |-> <<>>]
    /\ graph = [st |-> "live", calls |-> <<>>]
    /\ txn = [h \in TxnIds |-> NoTxn]
    /\ cur = [c \in CurIds |-> NoCur]
    /\ pc = [t \in Threads |-> "idle"]
    /\ halted = FALSE
    /\ version = 0
    /\ store = {}
    /\ verts \in IndexContents
    /\ edges = {}
    /\ vpos = Invalid /\ epos = Invalid
    /\ last = NoOp

\* TxnRead::vertex_index_iter_from(label, field, start, end)
VertexIndexIterFrom(start, end) ==
    /\ last.op = "init"
    /\ LET ks == AsRawFieldData(IndexKeys(start, end)[1])
           ke == AsRawFieldData(IndexKeys(start, end)[2])
       IN /\ ~ks.panic /\ ~ke.panic
          /\ vpos' = EngIndexFirst(verts, ks.raw, ke.raw)
    /\ last' = IndexScan("vertex_index_iter_from", start, end, 0, "", <<>>)
    /\ UNCHANGED <<hvars, verts, edges, epos>>

\* VertexIndexIter::next:
\*   if !self.inner.is_valid() { return None; }
\*   let id = self.inner.get_id().expect(..);
\*   let fd = self.inner.get_index_value().map(from_raw_field_data).expect(..);
\*   let _ = self.inner.next(); Some((id, fd))
VertexIndexIterNext ==
    /\ last.op \in {"vertex_index_iter_from", "vertex_index_iter_next"}
    /\ last.n < MaxCalls
    /\ LET y == IterYield(vpos)
           fd == FromRawFieldData(EngFieldData("Int8", vpos.key.v, "", <<>>))
       IN /\ vpos' = IF y = "some" THEN EngIndexNext(verts, vpos) ELSE vpos
          /\ last' = IndexScan("vertex_index_iter_next", last.start, last.end, last.n + 1, y,
                               IF y = "some" THEN Append(last.items, <<vpos.key.id, fd>>)
                               ELSE last.items)
    /\ UNCHANGED <<hvars, verts, edges, epos>>

IndexNext ==
    \/ \E s \in IdxVals, e \in IdxVals : VertexIndexIterFrom(Int8Field(s), Int8Field(e))
    \/ VertexIndexIterNext
IndexSpec == IndexInit /\ [][IndexNext]_vars

\* The entries an iterator over [start, end] has to yield.
Wanted == {x \in verts : last.start.n <= x.v /\ x.v <= last.end.n}

\* C28: an index iterator created with range [start, end] yields the indexed
\* elements whose value v satisfies start <= v <= end, both bounds included,
\* each once, in ascending order of value, and nothing else.
IndexRangeInclusive ==
    last.op = "vertex_index_iter_next" =>
        /\ \A i \in DOMAIN last.items :
              [id |-> last.items[i][1], v |-> last.items[i][2].n] \in Wanted
        /\ \A i, j \in DOMAIN last.items :
              i < j => /\ last.items[i][2].n <= last.items[j][2].n
                       /\ last.items[i] # last.items[j]
        /\ last.val = "none" => Len(last.items) = Cardinality(Wanted)
        /\ last.val = "some" => Len(last.items) = last.n
\* The iterator over [18, 20] of an index holding 17, 18 and 21 has yielded 18
\* and nothing more.
IndexRangeYieldedOne ==
    /\ last.op = "vertex_index_iter_next" /\ last.val = "none"
    /\ last.start.n = 18 /\ last.end.n = 20
    /\ {x.v : x \in verts} = {17, 18, 21}
    /\ Len(last.items) = 1 /\ last.items[1][2] = Int8Field(18)

\* ------------------------------------------------------ deleting a label
\* In this part store holds the vertex labels of the graph and verts its
\* vertices, as [id, label].
Labels == {"Person", "City"}
WithLabel(V, l) == {v \in V : v.label = l}

\* lgraph_api_graph_db_delete_vertex_label: an existing label goes with its
\* vertices, the call returns true and writes their number to n_modified; a
\* label that does not exist makes it return false.
lvars == <<faulty, build, galaxy, graph, txn, cur, pc, halted, version>>

lvars_but_galaxy == <<faulty, build, graph, txn, cur, pc, halted, version>>

EngDeleteVertexLabel(L, V, l) ==
    IF l \in L
    THEN [res |-> TRUE, n |-> Cardinality(WithLabel(V, l)),
          labels |-> L \ {l}, verts |-> V \ WithLabel(V, l)]
    ELSE [res |-> FALSE, n |-> 0, labels |-> L, verts |-> V]

LabelOp(name, l, existed, m, ret) ==
    [op |-> name, label |-> l, existed |-> existed, m |-> m, ret |-> ret]

\* Graph::add_vertex_label
LabelAddVertexLabel(l) ==
    /\ l \notin store
    /\ store' = store \cup {l}
    /\ last' = LabelOp("add_vertex_label", l, FALSE, 0, Ok(TRUE))
    /\ UNCHANGED <<lvars, cvars>>
\* TxnWrite::add_vertex, then commit
LabelAddVertex(l) ==
    /\ l \in store
    /\ \E i \in Vids :
          /\ \A v \in verts : v.id # i
          /\ verts' = verts \cup {[id |-> i, label |-> l]}
          /\ last' = LabelOp("add_vertex", l, TRUE, 0, Ok(i))
    /\ UNCHANGED <<lvars, store, edges, vpos, epos>>
\* VertexCursorMut::delete, then commit
LabelDeleteVertex ==
    \E v \in verts :
        /\ verts' = verts \ {v}
        /\ last' = LabelOp("delete", v.label, TRUE, 0, Ok(v.id))
        /\ UNCHANGED <<lvars, store, edges, vpos, epos>>
\* Graph::delete_vertex_label(label): self.inner.delete_vertex_label(label)
DeleteVertexLabel(l) ==
    LET e == EngDeleteVertexLabel(store, verts, l)
    IN /\ store' = e.labels
       /\ verts' = e.verts
       /\ last' = LabelOp("delete_vertex_label", l, l \in store,
                          Cardinality(WithLabel(verts, l)),
                          RawDeleteVertexLabel(NullMsg, e.res, e.n).ret)
       /\ UNCHANGED <<lvars, edges, vpos, epos>>

LabelInit == Init
LabelNext ==
    \/ \E l \in Labels : LabelAddVertexLabel(l)
    \/ \E l \in Labels : LabelAddVertex(l)
    \/ LabelDeleteVertex
    \/ \E l \in Labels : DeleteVertexLabel(l)
LabelSpec == LabelInit /\ [][LabelNext]_vars

\* C29: delete_vertex_label(L) on an existing vertex label that has M live
\* vertices returns (true, M).
DeleteLabelReturnsCount ==
    (last.op = "delete_vertex_label" /\ last.existed) =>
        /\ last.ret.ok
        /\ last.ret.val[1] = TRUE
        /\ last.ret.val[2] = last.m
\* A label with two live vertices has been deleted, and its vertices with it.
DeletedLabelWithTwo ==
    /\ last.op = "delete_vertex_label" /\ last.existed
    /\ last.m = 2 /\ last.ret = Ok(<<TRUE, 2>>)
    /\ WithLabel(verts, last.label) = {}

\* ---------------------------------------------------------- edge upsert
\* In this part edges holds the edges of one label, as [src, dst, eid, val]:
\* the two ends, the edge id that tells parallel edges apart, and the value of
\* the edge's Int8 field.
EdgeEnds == {<<0, 1>>, <<1, 0>>}
EdgeVals == {0, 1}
Parallel(E, src, dst) == {e \in E : e.src = src /\ e.dst = dst}
\* The edge id a new src->dst edge gets: one past the largest in use.
EngNextEid(E, src, dst) ==
    IF Parallel(E, src, dst) = {} THEN 0
    ELSE 1 + (CHOOSE n \in Eids : /\ \E e \in Parallel(E, src, dst) : e.eid = n
                                  /\ \A e \in Parallel(E, src, dst) : e.eid <= n)
EngAddEdge(E, src, dst, raw) ==
    E \cup {[src |-> src, dst |-> dst, eid |-> EngNextEid(E, src, dst), val |-> raw.n]}
\* lgraph_api_transaction_upsert_edge_with_field_data: the src->dst edge with
\* edge id 0 is updated and false returned; without such an edge one is added
\* and true returned.
EngUpsertEdge(E, src, dst, raw) ==
    LET zero == {e \in Parallel(E, src, dst) : e.eid = 0}
    IN IF zero # {}
       THEN [res |-> FALSE,
             edges |-> (E \ zero) \cup {[e EXCEPT !.val = raw.n] : e \in zero}]
       ELSE [res |-> TRUE, edges |-> EngAddEdge(E, src, dst, raw)]

\* Ends handed over in the other order.
EndsSwapped(src, dst) == <<dst, src>>
\* self.as_raw().upsert_edge_by_data(src, dst, label, field_names, &raw_field_values)
UpsertEnds(src, dst) == <<src, dst>>

Upsert(name, src, dst, v, ret, pre) ==
    [op |-> name, src |-> src, dst |-> dst, v |-> v, ret |-> ret, pre |-> pre]

\* TxnWrite::add_edge
UpsertAddEdge(src, dst, v) ==
    /\ EngNextEid(edges, src, dst) \in Eids
    /\ LET raw == AsRawFieldData(Int8Field(v))
       IN /\ ~raw.panic
          /\ edges' = EngAddEdge(edges, src, dst, raw.raw)
          /\ last' = Upsert("add_edge", src, dst, v,
                            Ok(EngNextEid(edges, src, dst)), edges)
    /\ UNCHANGED <<hvars, verts, vpos, epos>>
\* EdgeCursorMut::delete
UpsertDeleteEdge ==
    \E e \in edges :
        /\ edges' = edges \ {e}
        /\ last' = Upsert("delete", e.src, e.dst, e.val, Ok(e.eid), edges)
        /\ UNCHANGED <<hvars, verts, vpos, epos>>
\* TxnWrite::upsert_edge(src, dst, label, field_names, field_values)
UpsertEdge(src, dst, v) ==
    /\ \/ \E e \in Parallel(edges, src, dst) : e.eid = 0
       \/ EngNextEid(edges, src, dst) \in Eids
    /\ LET raw == AsRawFieldData(Int8Field(v))
           ends == UpsertEnds(src, dst)
           e == EngUpsertEdge(edges, ends[1], ends[2], raw.raw)
       IN /\ ~raw.panic
          /\ edges' = e.edges
          /\ last' = Upsert("upsert_edge", src, dst, v, FfiTry(NullMsg, e.res), edges)
    /\ UNCHANGED <<hvars, verts, vpos, epos>>

UpsertNext ==
    \/ \E p \in EdgeEnds, v \in EdgeVals : UpsertAddEdge(p[1], p[2], v)
    \/ UpsertDeleteEdge
    \/ \E p \in EdgeEnds, v \in EdgeVals : UpsertEdge(p[1], p[2], v)
UpsertSpec == Init /\ [][UpsertNext]_vars

\* The edge upsert_edge(src, dst) is about: the src->dst edge with edge id 0.
UpsertTarget(e) == e.src = last.src /\ e.dst = last.dst /\ e.eid = 0

\* C30: upsert_edge(src, dst, ..) inserts a new src->dst edge when there is
\* none; when there are such edges it updates only the one whose edge id is 0
\* and leaves every other edge, the parallel src->dst edges included, as it was.
UpsertTouchesEidZeroOnly ==
    last.op = "upsert_edge" =>
        /\ \A e \in last.pre : ~UpsertTarget(e) => e \in edges
        /\ Parallel(last.pre, last.src, last.dst) = {} =>
              /\ last.ret = Ok(TRUE)
              /\ edges = last.pre \cup
                     {[src |-> last.src, dst |-> last.dst, eid |-> 0, val |-> last.v]}
        /\ (\E e \in last.pre : UpsertTarget(e)) =>
              /\ last.ret = Ok(FALSE)
              /\ edges = {e \in last.pre : ~UpsertTarget(e)} \cup
                     {[src |-> last.src, dst |-> last.dst, eid |-> 0, val |-> last.v]}
\* Of two parallel edges with value 0 the upsert of value 1 changed the one
\* with edge id 0.
UpsertedBesideParallel ==
    /\ last.op = "upsert_edge" /\ last.v = 1
    /\ \E e \in last.pre : UpsertTarget(e) /\ e.val = 0
    /\ \E e \in edges : e.src = last.src /\ e.dst = last.dst /\ e.eid = 1 /\ e.val = 0
    /\ \E e \in edges : UpsertTarget(e) /\ e.val = 1

\* ------------------------------------------------- access rights of a role
\* In this part store holds one role of the galaxy: whether it exists, and its
\* access map as the level code of every graph (none for a graph the map does
\* not name).
GraphNames == {"g1", "g2", "g3"}
AccessLevels == {"None", "Read", "Write", "Full"}
\* enum AccessLevel: l as isize as i32
LevelCode(l) ==
    CASE l = "None" -> 0 [] l = "Read" -> 1 [] l = "Write" -> 2 [] l = "Full" -> 3
\* AccessLevel::try_from(code).unwrap(), as RawRoleInfo::graph_access reads a map
AccessLevelTryFrom(n) ==
    CASE n = 0 -> "None" [] n = 1 -> "Read" [] n = 2 -> "Write" [] n = 3 -> "Full"
\* struct GraphAccess { name, access_level }
GraphAccess == [name : GraphNames, access_level : AccessLevels]
\* The lists a caller passes here: empty, one entry, or two entries that name
\* g2 or g3, the same graph twice included.
AccessLists ==
    LET Two == {a \in GraphAccess : a.name # "g1"}
    IN {<<>>} \cup {<<a>> : a \in GraphAccess} \cup {<<a, b>> : a \in Two, b \in Two}
NoAccess == [g \in GraphNames |-> 0]
NoRole == [exists |-> FALSE, acc |-> NoAccess]

\* graph_access.map(|(n, l)| (n.into_c_string().unwrap(), l as isize as i32)).unzip()
AccessArrays(G) ==
    [names |-> [i \in DOMAIN G |-> G[i].name],
     levels |-> [i \in DOMAIN G |-> LevelCode(G[i].access_level)]]

\* The map the engine builds from the two arrays: a graph named once gets its
\* level, a graph named more than once the level of its first or of its last
\* entry, a graph not named is absent (-1).
EngAccessPolicies == {"first", "last"}
EngAccessMap(a, pol) ==
    [g \in GraphNames |->
        LET I == {i \in DOMAIN a.names : a.names[i] = g}
        IN IF I = {} THEN -1
           ELSE a.levels[CHOOSE i \in I : \A j \in I : IF pol = "first" THEN i <= j ELSE j <= i]]
\* lgraph_api_galaxy_set_role_access_rights: the map replaces the role's.
EngSetRoleAccessRights(acc, m) == [g \in GraphNames |-> IF m[g] # -1 THEN m[g] ELSE 0]
\* lgraph_api_galaxy_set_role_access_rights_incremental: the map overrides the
\* role's.
EngSetRoleAccessRightsIncremental(acc, m) ==
    [g \in GraphNames |-> IF m[g] # -1 THEN m[g] ELSE acc[g]]

\* RawGalaxy::set_role_access_rights: ffi_try!(lgraph_api_galaxy_set_role_access_rights(..))
RawSetRoleAccessRights(acc, m) ==
    [ret |-> FfiTry(NullMsg, TRUE), acc |-> EngSetRoleAccessRights(acc, m)]
\* RawGalaxy::set_role_access_rights_incremental:
\*   ffi_try!(lgraph_api_galaxy_set_role_access_rights_incremental(..))
RawSetRoleAccessRightsIncremental(acc, m) ==
    [ret |-> FfiTry(NullMsg, TRUE), acc |-> EngSetRoleAccessRightsIncremental(acc, m)]

\* Galaxy::get_role_info(role).graph_access, with None for a graph it lacks
RoleGraphAccess(acc) == [g \in GraphNames |-> AccessLevelTryFrom(acc[g])]

RoleOp(name, G, ret, pre) == [op |-> name, G |-> G, ret |-> ret, pre |-> pre]

\* Galaxy::create_role
CreateRole ==
    /\ ~store.exists
    /\ store' = [exists |-> TRUE, acc |-> NoAccess]
    /\ last' = RoleOp("create_role", <<>>, Ok(TRUE), RoleGraphAccess(store.acc))
    /\ UNCHANGED <<lvars, cvars>>
\* Galaxy::delete_role
DeleteRole ==
    /\ store.exists
    /\ store' = NoRole
    /\ last' = RoleOp("delete_role", <<>>, Ok(TRUE), RoleGraphAccess(store.acc))
    /\ UNCHANGED <<lvars, cvars>>
\* Galaxy::set_role_access_rights_incremental(role, graph_access)
SetRoleAccessRightsIncremental(G) ==
    /\ store.exists
    /\ \E pol \in (IF \E i, j \in DOMAIN G : i # j /\ G[i].name = G[j].name
                    THEN EngAccessPolicies ELSE {"first"}) :
          LET r == RawSetRoleAccessRightsIncremental(store.acc,
                                                     EngAccessMap(AccessArrays(G), pol))
          IN /\ store' = [store EXCEPT !.acc = r.acc]
             /\ last' = RoleOp("set_role_access_rights_incremental", G, r.ret,
                               RoleGraphAccess(store.acc))
    /\ UNCHANGED <<lvars, cvars>>

RoleInit ==
    /\ faulty = FALSE
    /\ build = "release"
    /\ galaxy = [st |-> "live", calls |-> <<>>]
    /\ graph = [st |-> "live", calls |-> <<>>]
    /\ txn = [h \in TxnIds |-> NoTxn]
    /\ cur = [c \in CurIds |-> NoCur]
    /\ pc = [t \in Threads |-> "idle"]
    /\ halted = FALSE
    /\ version = 0
    /\ store = NoRole
    /\ verts = {} /\ edges = {} /\ vpos = Invalid /\ epos = Invalid
    /\ last = RoleOp("open", <<>>, Ok(TRUE), RoleGraphAccess(NoAccess))
RoleNext ==
    \/ CreateRole
    \/ DeleteRole
    \/ \E G \in AccessLists : SetRoleAccessRightsIncremental(G)
RoleSpec == RoleInit /\ [][RoleNext]_vars

\* The levels G gives for graph g.
GivenFor(G, g) == {G[i].access_level : i \in {j \in DOMAIN G : G[j].name = g}}

\* C31: set_role_access_rights_incremental(role, G) changes the role's access
\* map to the previous map overridden by G: every graph named in G gets the
\* level given in G, every graph not named in G keeps the level it had.
IncrementalOverrides ==
    last.op = "set_role_access_rights_incremental" =>
        /\ last.ret = Ok(TRUE)
        /\ \A g \in GraphNames :
              IF GivenFor(last.G, g) # {}
              THEN RoleGraphAccess(store.acc)[g] \in GivenFor(last.G, g)
              ELSE RoleGraphAccess(store.acc)[g] = last.pre[g]
\* {g1:READ, g2:WRITE} merged with {g2:READ, g3:FULL} gave
\* {g1:READ, g2:READ, g3:FULL}.
MergedTheExample ==
    /\ last.op = "set_role_access_rights_incremental"
    /\ last.pre = [g \in GraphNames |->
                      CASE g = "g1" -> "Read" [] g = "g2" -> "Write" [] g = "g3" -> "None"]
    /\ last.G = <<[name |-> "g2", access_level |-> "Read"],
                  [name |-> "g3", access_level |-> "Full"]>>
    /\ RoleGraphAccess(store.acc) =
           [g \in GraphNames |->
               CASE g = "g1" -> "Read" [] g = "g2" -> "Read" [] g = "g3" -> "Full"]

\* ------------------------------------------------------ opening as a user
\* In this part the galaxy record holds the session (st is "closed" between
\* two sessions, user is the session's user) and what the engine keeps in the
\* directory: the users, each one's password (pw), the administrators and the
\* disabled users; authed holds the users whose password the session was
\* given. store holds the users that were disabled and enabled again.
Passwords == {"p1", "p2"}
LoginOps == {"create_user", "disable_user", "enable_user"}

\* lgraph_api_galaxy_create_with_user: refused for a user that does not exist,
\* a wrong password, or a disabled user.
EngOpenErr(g, username, password) ==
    IF username \in g.users /\ g.pw[username] = password /\ username \notin g.disabled
    THEN NullMsg ELSE "Unauthorized."

\* RawGalaxy::new: ffi_try!{ lgraph_api_galaxy_create(dir, durable, create) },
\* which asks for no user.
RawGalaxyNew(g, username, password) == FfiTry(NullMsg, "admin")
\* RawGalaxy::new_with_user:
\*   ffi_try!{ lgraph_api_galaxy_create_with_user(dir, username, password, ..) }
RawGalaxyNewWithUser(g, username, password) ==
    FfiTry(EngOpenErr(g, username, password), username)

Login(name, s, u, correct, disabled, r) ==
    [op |-> name, session |-> s, target |-> u, correct |-> correct,
     disabled |-> disabled, ok |-> r.ok, msg |-> r.msg]

\* Galaxy::open(dir, username, password):
\*   OpenOptions::new().open(..) -> RawGalaxy::new_with_user(..).map(|raw| Galaxy { inner: raw })
GalaxyOpen(u, p) ==
    /\ galaxy.st = "closed"
    /\ LET r == RawGalaxyNewWithUser(galaxy, u, p)
       IN /\ galaxy' = IF r.ok THEN [galaxy EXCEPT !.st = "live", !.user = r.val,
                                                   !.authed = {r.val}]
                       ELSE galaxy
          /\ last' = Login("open", "", u, u \in galaxy.users /\ galaxy.pw[u] = p,
                           u \in galaxy.disabled, r)
    /\ UNCHANGED <<lvars_but_galaxy, store, cvars>>
\* impl Drop for RawGalaxy
GalaxyClose ==
    /\ galaxy.st = "live"
    /\ galaxy' = [galaxy EXCEPT !.st = "closed", !.user = "", !.authed = {}]
    /\ last' = Login("close", galaxy.user, galaxy.user, TRUE, FALSE, Ok(TRUE))
    /\ UNCHANGED <<lvars_but_galaxy, store, cvars>>
\* Galaxy::create_user(user, password, desc)
LoginCreateUser(u, p) ==
    /\ galaxy.st = "live"
    /\ LET s == galaxy.user
           r == FfiTry(IF EngIsAdmin(s) THEN NullMsg ELSE "Unauthorized.", u \notin galaxy.users)
       IN /\ galaxy' = IF r.ok /\ r.val
                       THEN [galaxy EXCEPT !.users = @ \cup {u}, !.pw = [@ EXCEPT ![u] = p]]
                       ELSE galaxy
          /\ last' = Login("create_user", s, u, TRUE, FALSE, r)
    /\ UNCHANGED <<lvars_but_galaxy, store, cvars>>
\* Galaxy::disable_user(user)
LoginDisableUser(u) ==
    /\ galaxy.st = "live"
    /\ LET s == galaxy.user
           r == FfiTry(IF EngIsAdmin(s) /\ u # s THEN NullMsg ELSE "Unauthorized.",
                       u \in galaxy.users)
           done == r.ok /\ r.val
       IN /\ galaxy' = IF done THEN [galaxy EXCEPT !.disabled = @ \cup {u}] ELSE galaxy
          /\ store' = IF done THEN store \ {u} ELSE store
          /\ last' = Login("disable_user", s, u, TRUE, u \in galaxy.disabled, r)
    /\ UNCHANGED <<lvars_but_galaxy, cvars>>
\* Galaxy::enable_user(user)
LoginEnableUser(u) ==
    /\ galaxy.st = "live"
    /\ LET s == galaxy.user
           r == FfiTry(IF EngIsAdmin(s) THEN NullMsg ELSE "Unauthorized.", u \in galaxy.users)
           done == r.ok /\ r.val
       IN /\ galaxy' = IF done THEN [galaxy EXCEPT !.disabled = @ \ {u}] ELSE galaxy
          /\ store' = IF done /\ u \in galaxy.disabled THEN store \cup {u} ELSE store
          /\ last' = Login("enable_user", s, u, TRUE, u \in galaxy.disabled, r)
    /\ UNCHANGED <<lvars_but_galaxy, cvars>>

\* A directory with its administrator only, and no session.
LoginInit ==
    /\ faulty = FALSE
    /\ build = "release"
    /\ galaxy = [st |-> "closed", calls |-> <<>>, user |-> "", users |-> {"admin"},
                 admins |-> {"admin"}, disabled |-> {},
                 pw |-> [u \in Users |-> "p1"], authed |-> {}]
    /\ graph = [st |-> "live", calls |-> <<>>]
    /\ txn = [h \in TxnIds |-> NoTxn]
    /\ cur = [c \in CurIds |-> NoCur]
    /\ pc = [t \in Threads |-> "idle"]
    /\ halted = FALSE
    /\ version = 0
    /\ store = {}
    /\ verts = {} /\ edges = {} /\ vpos = Invalid /\ epos = Invalid
    /\ last = Login("close", "admin", "admin", TRUE, FALSE, Ok(TRUE))
LoginNext ==
    \/ \E u \in Users, p \in Passwords : GalaxyOpen(u, p)
    \/ GalaxyClose
    \/ \E u \in Users, p \in Passwords : LoginCreateUser(u, p)
    \/ \E u \in Users : LoginDisableUser(u)
    \/ \E u \in Users : LoginEnableUser(u)
LoginSpec == LoginInit /\ [][LoginNext]_vars

\* C32: once an administrator has disabled a user, opening the galaxy as that
\* user with the correct password fails; once the user is enabled again,
\* opening with the same password succeeds.
DisabledUserCannotOpen ==
    (last.op = "open" /\ last.correct) => (last.ok <=> ~last.disabled)
\* A user that was disabled and enabled again has opened the galaxy.
ReenabledUserOpened ==
    /\ last.op = "open" /\ last.correct /\ last.ok
    /\ last.target \in store /\ last.target # "admin"
    /\ galaxy.user = last.target

\* ------------------------------------------- read-only transactions together
\* C33: read-only transactions of different threads are open together on one
\* graph: create_ro_txn on a thread that holds no transaction returns, and
\* succeeds, whatever read-only transactions the other threads hold and
\* whether or not a write transaction is open.
RoTxnAlwaysOpens ==
    last.op = "create_ro_txn" =>
        /\ pc[last.t] = "idle"
        /\ last.ok \/ (last.msg = NestedTxnMsg /\ EngThreadActive(last.t))
\* A read-only transaction was opened while another thread holds the write
\* lock.
RoTxnOpenedBesideWriter ==
    /\ last.op = "create_ro_txn" /\ last.ok
    /\ txn[last.h].st = "live" /\ txn[last.h].owner = last.t
    /\ \E h \in TxnIds : /\ txn[h].owner # last.t /\ txn[h].eng = "active"
                         /\ txn[h].kind = "rw" /\ ~txn[h].eopt

\* ------------------------------------------------------ the view of a fork
\* A write the engine commits in a transaction of its own, with no handle of
\* the client (Graph::add_vertex_label and the other schema calls): it joins
\* the store under a mark that is no handle.
GraphCommitsWrite(t) ==
    /\ Running(t) /\ GraphUsable /\ ~EngThreadActive(t)
    /\ version < MaxTxn
    /\ version' = version + 1
    /\ store' = store \cup {0 - (version + 1)}
    /\ last' = Op("add_vertex_label", t, 0, FfiTry(NullMsg, TRUE))
    /\ UNCHANGED <<faulty, build, cvars, galaxy, graph, txn, cur, pc, halted>>

ForkNext ==
    \/ \E t \in Threads : CreateRoTxn(t)
    \/ \E t \in Threads : GraphCommitsWrite(t)
    \/ \E t \in Threads, h \in TxnIds : DropTxn(t, h)
    \/ \E t \in Threads, h \in TxnIds : TxnReadCall(t, h)
    \/ \E t \in Threads, h \in TxnIds : ForkRoTxn(t, h)
ForkSpec == Init /\ [][ForkNext]_vars

\* C34: the transaction fork_ro_txn(t) returns observes the snapshot of t:
\* what it reads is what t reads, whatever was committed after t was created.
ForkSharesSnapshot ==
    (last.op = "fork_ro_txn" /\ last.ok) =>
        /\ txn[last.h].snap = txn[last.arg].snap
        /\ txn[last.h].sver = txn[last.arg].sver
\* A transaction was forked after a write was committed that the forked one
\* does not see.
ForkedAfterCommit ==
    /\ last.op = "fork_ro_txn" /\ last.ok
    /\ txn[last.h].kind = "ro" /\ txn[last.h].st = "live"
    /\ txn[last.arg].snap # store
    /\ txn[last.h].owner # txn[last.arg].owner

\* ------------------------------------------------------ commit and conflict
\* C35: the library never retries on conflict: a call of RwTxn::commit issues
\* one foreign commit call, and when that call fails with a conflict the
\* error is returned to the caller, with no further commit attempt.
CommitIssuedOnce ==
    /\ \A h \in TxnIds : Count(txn[h].calls, "commit") <= 1
    /\ last.op = "commit" =>
          /\ Count(txn[last.h].calls, "commit") = 1
          /\ txn[last.h].res = ConflictMsg =>
                (~last.ok /\ last.msg = ConflictMsg /\ Kind(last.msg) = "TxnConflict")
\* A commit has failed with a conflict.
CommitConflicted ==
    /\ last.op = "commit" /\ ~last.ok /\ Kind(last.msg) = "TxnConflict"
    /\ txn[last.h].calls = <<"commit", "abort", "destroy">>
    /\ txn[last.h].st = "gone"

\* ------------------------------------------------------- ids of fields
\* In this part store holds the schema of the graph: for vertex labels and for
\* edge labels, the fields of each label in the order of their ids (label id i
\* at index i + 1, field id j at index j + 1).
LabelIds == {0, 1}
FieldNames == {"a", "b"}
FieldLists == {<<"a">>, <<"a", "b">>, <<"b", "a">>}
NameLists == {<<>>} \cup {<<n>> : n \in FieldNames} \cup {<<n, m>> : n \in FieldNames, m \in FieldNames}
Schemas == [vertex : [{1, 2} -> FieldLists], edge : [{1, 2} -> FieldLists]]

\* lgraph_api_transaction_get_vertex_field_id / get_edge_field_id: the id of
\* the field in the label's schema, or an error for a name it lacks.
EngFieldId(fields, name) ==
    IF \E j \in DOMAIN fields : fields[j] = name
    THEN [err |-> NullMsg, id |-> (CHOOSE j \in DOMAIN fields : fields[j] = name) - 1]
    ELSE [err |-> "Invalid parameter.", id |-> 0]
\* lgraph_api_transaction_get_vertex_field_ids: the ids of the names, in their
\* order, written to field_ids; the call returns their number.
EngFieldIds(fields, names) ==
    IF \A i \in DOMAIN names : EngFieldId(fields, names[i]).err = NullMsg
    THEN [err |-> NullMsg, len |-> Len(names),
          ids |-> [i \in DOMAIN names |-> EngFieldId(fields, names[i]).id]]
    ELSE [err |-> "Invalid parameter.", len |-> 0, ids |-> <<>>]

\* RawTransaction::get_vertex_field_id
RawGetVertexFieldId(label_id, name) ==
    LET e == EngFieldId(store.vertex[label_id + 1], name) IN FfiTry(e.err, e.id)
\* RawTransaction::get_edge_field_id
RawGetEdgeFieldId(label_id, name) ==
    LET e == EngFieldId(store.edge[label_id + 1], name) IN FfiTry(e.err, e.id)
\* RawTransaction::get_vertex_field_ids:
\*   let len = ffi_try!{ lgraph_api_transaction_get_vertex_field_ids(..) }?;
\*   Ok(slice::from_raw_parts(cfield_ids, len).to_vec())
RawGetVertexFieldIds(label_id, names) ==
    LET e == EngFieldIds(store.vertex[label_id + 1], names)
        len == FfiTry(e.err, e.len)
    IN IF ~len.ok THEN len ELSE Ok(SubSeq(e.ids, 1, len.val))
\* RawTransaction::get_edge_field_ids:
\*   let len = ffi_try!{ lgraph_api_transaction_get_vertex_field_ids(..) }?;
\*   Ok(slice::from_raw_parts(cfield_ids, len).to_vec())
RawGetEdgeFieldIds(label_id, names) ==
    LET e == EngFieldIds(store.vertex[label_id + 1], names)
        len == FfiTry(e.err, e.len)
    IN IF ~len.ok THEN len ELSE Ok(SubSeq(e.ids, 1, len.val))

FieldIdOp(name, label_id, names, ret) ==
    [op |-> name, label_id |-> label_id, names |-> names, ret |-> ret]

\* TxnRead::vertex_field_id
VertexFieldId(label_id, name) ==
    /\ last' = FieldIdOp("vertex_field_id", label_id, <<name>>,
                         RawGetVertexFieldId(label_id, name))
    /\ UNCHANGED <<hvars, cvars>>
\* TxnRead::edge_field_id
EdgeFieldId(label_id, name) ==
    /\ last' = FieldIdOp("edge_field_id", label_id, <<name>>, RawGetEdgeFieldId(label_id, name))
    /\ UNCHANGED <<hvars, cvars>>
\* TxnRead::vertex_fields_ids
VertexFieldsIds(label_id, names) ==
    /\ last' = FieldIdOp("vertex_fields_ids", label_id, names,
                         RawGetVertexFieldIds(label_id, names))
    /\ UNCHANGED <<hvars, cvars>>
\* TxnRead::edge_fields_ids
EdgeFieldsIds(label_id, names) ==
    /\ last' = FieldIdOp("edge_fields_ids", label_id, names,
                         RawGetEdgeFieldIds(label_id, names))
    /\ UNCHANGED <<hvars, cvars>>

\* An open transaction on a graph with two vertex labels and two edge labels.
FieldIdInit ==
    /\ faulty = FALSE
    /\ build = "release"
    /\ galaxy = [st |-> "live", calls |-> <<>>]
    /\ graph = [st |-> "live", calls |-> <<>>]
    /\ txn = [h \in TxnIds |-> NoTxn]
    /\ cur = [c \in CurIds |-> NoCur]
    /\ pc = [t \in Threads |-> "idle"]
    /\ halted = FALSE
    /\ version = 0
    /\ store \in Schemas
    /\ verts = {} /\ edges = {} /\ vpos = Invalid /\ epos = Invalid
    /\ last = FieldIdOp("create_ro_txn", 0, <<>>, Ok(0))
FieldIdNext ==
    \/ \E l \in LabelIds, n \in FieldNames : VertexFieldId(l, n)
    \/ \E l \in LabelIds, n \in FieldNames : EdgeFieldId(l, n)
    \/ \E l \in LabelIds, ns \in NameLists : VertexFieldsIds(l, ns)
    \/ \E l \in LabelIds, ns \in NameLists : EdgeFieldsIds(l, ns)
FieldIdSpec == FieldIdInit /\ [][FieldIdNext]_vars

\* C36: edge_fields_ids(label_id, names) resolves the names in the schema of
\* the edge label label_id: for each name, in order, it returns the id that
\* edge_field_id(label_id, name) returns.
EdgeFieldsIdsAgree ==
    last.op = "edge_fields_ids" =>
        IF \A i \in DOMAIN last.names : RawGetEdgeFieldId(last.label_id, last.names[i]).ok
        THEN /\ last.ret.ok
             /\ Len(last.ret.val) = Len(last.names)
             /\ \A i \in DOMAIN last.names :
                   last.ret.val[i] = RawGetEdgeFieldId(last.label_id, last.names[i]).val
        ELSE ~last.ret.ok
\* The same for vertex labels, which holds.
VertexFieldsIdsAgree ==
    last.op = "vertex_fields_ids" =>
        IF \A i \in DOMAIN last.names : RawGetVertexFieldId(last.label_id, last.names[i]).ok
        THEN /\ last.ret.ok
             /\ Len(last.ret.val) = Len(last.names)
             /\ \A i \in DOMAIN last.names :
                   last.ret.val[i] = RawGetVertexFieldId(last.label_id, last.names[i]).val
        ELSE ~last.ret.ok

\* ------------------------------------------------- adaptors that terminate
\* C37: every pull of a lazy adaptor that returns Some leaves the underlying
\* cursor strictly further along, or Invalid, so that no element is yielded
\* twice and only finitely many are yielded, also when the foreign advance
\* call fails.
PullMovesCursorOn ==
    (last.op = "into_vertex_ids_next" /\ last.val = "some") =>
        (~vpos.valid \/ (last.pre.valid /\ vpos.key > last.pre.key))

\* ------------------------------------------------ switching the session's user
\* lgraph_api_galaxy_set_current_user: as opening, for a session that exists.
EngSetCurrentUserErr(g, user, password) == EngOpenErr(g, user, password)
\* lgraph_api_galaxy_set_user: any existing user, from any user
\* ("now set_user can switch from anyone to anyone").
EngSetUserErr(g, user) == IF user \in g.users THEN NullMsg ELSE "Invalid parameter."

\* Galaxy::set_current_user(user, password)
GalaxySetCurrentUserWithPassword(u, p) ==
    /\ galaxy.st = "live"
    /\ LET r == FfiTry(EngSetCurrentUserErr(galaxy, u, p), u)
       IN /\ galaxy' = IF r.ok THEN [galaxy EXCEPT !.user = u, !.authed = @ \cup {u}]
                       ELSE galaxy
          /\ last' = Login("set_current_user", galaxy.user, u,
                           u \in galaxy.users /\ galaxy.pw[u] = p, u \in galaxy.disabled, r)
    /\ UNCHANGED <<lvars_but_galaxy, store, cvars>>
\* Galaxy::set_user_without_auth(user): self.inner.set_user(user)
GalaxySetUserWithoutAuth(u) ==
    /\ galaxy.st = "live"
    /\ LET r == FfiTry(EngSetUserErr(galaxy, u), u)
       IN /\ galaxy' = IF r.ok THEN [galaxy EXCEPT !.user = u] ELSE galaxy
          /\ last' = Login("set_user_without_auth", galaxy.user, u, FALSE,
                           u \in galaxy.disabled, r)
    /\ UNCHANGED <<lvars_but_galaxy, store, cvars>>

SwitchNext ==
    \/ \E u \in Users, p \in Passwords : GalaxyOpen(u, p)
    \/ GalaxyClose
    \/ \E u \in Users, p \in Passwords : LoginCreateUser(u, p)
    \/ \E u \in Users : LoginDisableUser(u)
    \/ \E u \in Users : LoginEnableUser(u)
    \/ \E u \in Users, p \in Passwords : GalaxySetCurrentUserWithPassword(u, p)
    \/ \E u \in Users : GalaxySetUserWithoutAuth(u)
SwitchSpec == LoginInit /\ [][SwitchNext]_vars

\* C38: a session opened with the credentials of a user who is no
\* administrator never performs an operation reserved to administrators by
\* calls that supply no administrator's password: such an operation succeeds
\* only in a session that was given the password of an administrator.
NoAdminOpWithoutAdminPassword ==
    (last.op \in LoginOps /\ last.ok) => galaxy.authed \cap galaxy.admins # {}

====
